---- MODULE Spec2Model ----
(***************************************************************************)
(* Trend-extrapolation engine of the real-time-cloud metadata tools:       *)
(* CloudMetadataEstimator of code/estimate_current_region_metadata.py.     *)
(*                                                                         *)
(* Numbers.  A metric value is kept in fixed point, as an integer number   *)
(* of 1/Scale units (at Scale = 100, 1.18 is 118).  A trend and a candidate*)
(* value are exact rationals [n, d] of such units.  The recency weights    *)
(* exp(linspace(0, 1, k)) are irrational; they are taken in thousandths,   *)
(* from the exponential series, so a weighted trend is the rational        *)
(* nearest the float the code computes.  Rounding is round-half-to-even,   *)
(* as Python's round is on a value that is exactly representable.          *)
(***************************************************************************)
EXTENDS Integers, Sequences, FiniteSets, TLC

VARIABLES csv, config, df, numeric_columns, estimation_metadata, ret,
          load_ret, log, saved, exit_status, call,
          metadata_file, update, geo

vars == <<csv, config, df, numeric_columns, estimation_metadata, ret,
          load_ret, log, saved, exit_status, call,
          metadata_file, update, geo>>

(***************************************************************************)
(* Bounds of the model.                                                    *)
(***************************************************************************)
\* rows of the input file
MaxRows == 3
\* largest num_years a caller passes (0 and MaxNumYears are out of range)
MaxNumYears == 4

\* decimal digits kept of a metric value: a value is an integer number of
\* 1/Scale units
ScaleDigits == 2

(***************************************************************************)
(* Optional values: None, or Some(x).                                      *)
(***************************************************************************)
None == <<>>
Some(x) == <<x>>
Get(o) == o[1]

(***************************************************************************)
(* Cells of a table.  A numeric cell holds units in v; a text cell holds   *)
(* its text in s.  NaN is pandas' missing value (a blank cell of the       *)
(* file); NA is the string "NA" the estimator writes as its no-data mark.  *)
(***************************************************************************)
Float(x) == [kind |-> "float", v |-> x, s |-> ""]
PyInt(x) == [kind |-> "int", v |-> x, s |-> ""]
Str(t) == [kind |-> "str", v |-> 0, s |-> t]
NaN == [kind |-> "nan", v |-> 0, s |-> ""]
NA == Str("NA")
notna(c) == c.kind # "nan"
IsNumber(c) == c.kind \in {"float", "int", "nan"}

\* a missing cloud-provider or cloud-region (a blank cell read as NaN)
NaNStr == "<NaN>"

(***************************************************************************)
(* Exact rationals of units: n / d with d > 0.                             *)
(***************************************************************************)
Rat(n, d) == [nan |-> FALSE, n |-> n, d |-> d]
NaNRat == [nan |-> TRUE, n |-> 0, d |-> 1]
RatOfUnits(u) == Rat(u, 1)
RatLess(a, b) == a.n * b.d < b.n * a.d
RatEq(a, b) == a.n * b.d = b.n * a.d
Abs(i) == IF i < 0 THEN -i ELSE i

RECURSIVE Pow10(_)
Pow10(k) == IF k <= 0 THEN 1 ELSE 10 * Pow10(k - 1)

Scale == Pow10(ScaleDigits)
\* the units of h hundredths (1.18 is Hundredths(118))
Hundredths(h) == h * Pow10(ScaleDigits - 2)

RECURSIVE SumSeq(_)
SumSeq(s) == IF s = <<>> THEN 0 ELSE Head(s) + SumSeq(Tail(s))

\* the integer nearest n / d (d > 0), a tie going to the even one
RoundHalfEven(n, d) ==
  LET q == n \div d
      r == n % d
  IN  IF 2 * r < d THEN q
      ELSE IF 2 * r > d THEN q + 1
      ELSE IF q % 2 = 0 THEN q ELSE q + 1

(***************************************************************************)
(* Column names.                                                           *)
(***************************************************************************)
REQUIRED_COLUMNS == {"year", "cloud-provider", "cloud-region"}

CARBON_INTENSITY_COLUMNS ==
  {"provider-carbon-intensity-market-annual",
   "provider-carbon-intensity-average-consumption-hourly",
   "grid-carbon-intensity-average-consumption-annual",
   "grid-carbon-intensity-marginal-consumption-annual",
   "grid-carbon-intensity-average-production-annual",
   "grid-carbon-intensity"}

CFE_COLUMNS == {"provider-cfe-hourly", "provider-cfe-annual"}

EFFICIENCY_COLUMNS == {"power-usage-effectiveness", "water-usage-effectiveness"}

(***************************************************************************)
(* EstimationConfig.  The bounds are units; outlier_threshold is a         *)
(* non-negative rational number of standard deviations.                    *)
(***************************************************************************)
DefaultConfig ==
  [min_pue |-> Hundredths(100),
   max_cfe |-> Hundredths(100),
   min_cfe |-> Hundredths(0),
   min_carbon_intensity |-> Hundredths(0),
   max_estimate_years |-> 3,
   min_data_points |-> 2,
   outlier_threshold |-> [n |-> 3, d |-> 1]]

\* a configuration a caller supplies instead of the default one
StrictConfig ==
  [min_pue |-> Hundredths(104),
   max_cfe |-> Hundredths(100),
   min_cfe |-> Hundredths(0),
   min_carbon_intensity |-> Hundredths(0),
   max_estimate_years |-> 2,
   min_data_points |-> 1,
   outlier_threshold |-> [n |-> 1, d |-> 1]]

Configs == {DefaultConfig, StrictConfig}

(***************************************************************************)
(* The input file.  Its columns are the three identifying columns, the     *)
(* metric columns MetricColumns and the text column TextColumns.  A row is *)
(* [year, provider, region, vals], vals giving a cell for every other      *)
(* column.  (provider, region, year) identifies a row of the file.         *)
(***************************************************************************)
MetricColumns ==
  {"power-usage-effectiveness", "water-usage-effectiveness",
   "provider-cfe-annual", "provider-cfe-hourly", "grid-carbon-intensity",
   "total-ICT-energy-consumption-annual"}

TextColumns == {"location"}

ValueColumns == MetricColumns \cup TextColumns

Years == {2023, 2024, 2025}

\* the provider and region names, in string order
ProviderOrder == <<"aws", "gcp">>
RegionOrder == <<"eu-west-1", "us-east-1">>

Entities ==
  {<<"aws", "eu-west-1">>, <<"aws", "us-east-1">>, <<"gcp", "eu-west-1">>,
   <<NaNStr, "us-east-1">>}

\* the values a row of the file carries.  provider-cfe-hourly is never
\* tracked, water-usage-effectiveness is missing in one profile, and a CFE
\* of 1.02 is a data-quality anomaly the validation only warns about
HighProfile ==
  [c \in ValueColumns |->
     CASE c = "power-usage-effectiveness" -> Float(Hundredths(120))
       [] c = "water-usage-effectiveness" -> Float(Hundredths(50))
       [] c = "provider-cfe-annual" -> Float(Hundredths(102))
       [] c = "provider-cfe-hourly" -> NaN
       [] c = "grid-carbon-intensity" -> Float(Hundredths(200))
       [] c = "total-ICT-energy-consumption-annual" -> Float(Hundredths(10))
       [] OTHER -> Str("Dublin")]

LowProfile ==
  [c \in ValueColumns |->
     CASE c = "power-usage-effectiveness" -> Float(Hundredths(110))
       [] c = "water-usage-effectiveness" -> NaN
       [] c = "provider-cfe-annual" -> Float(Hundredths(97))
       [] c = "provider-cfe-hourly" -> NaN
       [] c = "grid-carbon-intensity" -> Float(Hundredths(100))
       [] c = "total-ICT-energy-consumption-annual" -> Float(Hundredths(5))
       [] OTHER -> Str("Council Bluffs")]

Profiles == {HighProfile, LowProfile}

\* a year cell that pd.to_numeric(errors='coerce') turns into NaN
BadYear == 0

\* a row whose year cannot be parsed
BadYearRow ==
  [year |-> BadYear, provider |-> "aws", region |-> "eu-west-1",
   vals |-> HighProfile]

\* a row of range anomalies: a PUE below 1.0, a negative CFE, a negative
\* carbon intensity
AnomalousProfile ==
  [c \in ValueColumns |->
     CASE c = "power-usage-effectiveness" -> Float(Hundredths(95))
       [] c = "water-usage-effectiveness" -> NaN
       [] c = "provider-cfe-annual" -> Float(Hundredths(-10))
       [] c = "provider-cfe-hourly" -> NaN
       [] c = "grid-carbon-intensity" -> Float(Hundredths(-500))
       [] c = "total-ICT-energy-consumption-annual" -> Float(Hundredths(5))
       [] OTHER -> Str("Ashburn")]

AnomalousRow ==
  [year |-> 2025, provider |-> "gcp", region |-> "us-east-1",
   vals |-> AnomalousProfile]

InputRows ==
  {[year |-> y, provider |-> e[1], region |-> e[2], vals |-> p] :
     y \in Years, e \in Entities, p \in Profiles}
    \cup {BadYearRow, AnomalousRow}

key(row) == <<row.provider, row.region>>

(***************************************************************************)
(* Sequences as pandas uses them.                                          *)
(***************************************************************************)
RECURSIVE Filter(_, _, _)
\* the elements s[i] of s, from index i on, whose flag drop[i] is false
Filter(s, drop, i) ==
  IF i > Len(s) THEN <<>>
  ELSE IF drop[i] THEN Filter(s, drop, i + 1)
  ELSE <<s[i]>> \o Filter(s, drop, i + 1)

Where(s, P(_)) == SelectSeq(s, P)

\* f with all its values computed (a function expression is otherwise
\* evaluated anew at each application)
Eager(f) == f @@ <<>>

Range(s) == {s[i] : i \in DOMAIN s}

(***************************************************************************)
(* Orders.  Strings compare by their place in ProviderOrder and            *)
(* RegionOrder; a missing name sorts after every name (na_position         *)
(* 'last').                                                                *)
(***************************************************************************)
IndexIn(order, name) ==
  IF \E i \in DOMAIN order : order[i] = name
  THEN CHOOSE i \in DOMAIN order : order[i] = name
  ELSE Len(order) + 1

ProviderRank(p) == IndexIn(ProviderOrder, p)
RegionRank(r) == IndexIn(RegionOrder, r)

\* a sorts strictly before b with year descending, then cloud-provider and
\* cloud-region ascending
YearDescKeyAsc(a, b) ==
  \/ a.year > b.year
  \/ a.year = b.year /\ ProviderRank(a.provider) < ProviderRank(b.provider)
  \/ /\ a.year = b.year
     /\ ProviderRank(a.provider) = ProviderRank(b.provider)
     /\ RegionRank(a.region) < RegionRank(b.region)

YearAsc(a, b) == a.year < b.year

RECURSIVE InsertByYear(_, _)
InsertByYear(s, x) ==
  IF s = <<>> THEN <<x>>
  ELSE IF YearAsc(x, Head(s)) THEN <<x>> \o s
  ELSE <<Head(s)>> \o InsertByYear(Tail(s), x)

RECURSIVE SortByYear(_)
\* sort_values('year'): ascending, rows of one year keeping their order
SortByYear(s) ==
  IF s = <<>> THEN <<>>
  ELSE InsertByYear(SortByYear(SubSeq(s, 1, Len(s) - 1)), s[Len(s)])

(***************************************************************************)
(* _detect_outliers: the flags of a series of values (units), none of them *)
(* missing.  With n values of sum S, dev[i] = n * x[i] - S and SS the sum  *)
(* of the dev[i] squared, the mean is S / n and the standard deviation of  *)
(* pandas' Series.std (the sample one, n - 1 in the denominator) is        *)
(* sqrt(SS / (n * n * (n - 1))), so that for a threshold t = tn / td >= 0  *)
(*   |x[i] - mean| / std > t   iff   dev[i]^2 * (n - 1) * td^2 > tn^2 * SS *)
(* (a series of equal values has std 0 and z-scores NaN, never > t).       *)
(***************************************************************************)
Deviations(series) ==
  [i \in DOMAIN series |-> Len(series) * series[i] - SumSeq(series)]

SumOfSquares(devs) == SumSeq([i \in DOMAIN devs |-> devs[i] * devs[i]])

\* a test of the squared z-score against the threshold itself
ZScoreSquaredExceeds(series, i, threshold) ==
  LET devs == Deviations(series)
  IN  devs[i] * devs[i] * (Len(series) - 1) * threshold.d
        > threshold.n * SumOfSquares(devs)

ZScoreExceeds(series, i, threshold) ==
  LET devs == Deviations(series)
  IN  devs[i] * devs[i] * (Len(series) - 1) * threshold.d * threshold.d
        > threshold.n * threshold.n * SumOfSquares(devs)

\* a detection that flags nothing
NoOutliers(cfg, series) == [i \in DOMAIN series |-> FALSE]

_detect_outliers(cfg, series) ==
  IF Len(series) < 3
  THEN [i \in DOMAIN series |-> FALSE]
  ELSE [i \in DOMAIN series |-> ZScoreExceeds(series, i, cfg.outlier_threshold)]

(***************************************************************************)
(* The recency weights np.exp(np.linspace(0, 1, k)), in thousandths.       *)
(* linspace(0, 1, k)[i] is (i - 1) / (k - 1) for i in 1..k (0 when k = 1); *)
(* exp(a / b) is the sum of the first terms (a / b)^j / j! of its series.  *)
(***************************************************************************)
ExpTerms == 7

RECURSIVE IntPow(_, _)
IntPow(b, j) == IF j = 0 THEN 1 ELSE b * IntPow(b, j - 1)

RECURSIVE Factorial(_)
Factorial(j) == IF j = 0 THEN 1 ELSE j * Factorial(j - 1)

RECURSIVE ExpSeries(_, _, _)
ExpSeries(a, b, j) ==
  IF j > ExpTerms THEN 0
  ELSE (1000 * IntPow(a, j)) \div (IntPow(b, j) * Factorial(j))
         + ExpSeries(a, b, j + 1)

ExpWeights(k) ==
  [i \in 1..k |-> IF k = 1 THEN ExpSeries(0, 1, 0) ELSE ExpSeries(i - 1, k - 1, 0)]

\* the differences weighted, without the division by the sum of the weights
WeightedSum(diffs, weights) ==
  Rat(SumSeq([i \in DOMAIN diffs |-> diffs[i] * weights[i]]), 1)

\* np.average(diffs, weights): the normalisation weights / weights.sum()
\* leaves the quotient as it is
WeightedAverage(diffs, weights) ==
  Rat(SumSeq([i \in DOMAIN diffs |-> diffs[i] * weights[i]]), SumSeq(weights))

\* Series.diff().dropna() of a column without missing values
Diff(series) == [i \in 1..(Len(series) - 1) |-> series[i + 1] - series[i]]

ColumnValues(rows, column) == [i \in DOMAIN rows |-> rows[i].vals[column].v]

(***************************************************************************)
(* _calculate_weighted_trend: the trend of one (provider, region) group of *)
(* rows for a column, a rational number of units per step.                 *)
(***************************************************************************)
\* the trend returned for a group with too few observations
InsufficientDataNaN == NaNRat
InsufficientData == Rat(0, 1)

_calculate_weighted_trend(cfg, group, column) ==
  IF Len(group) < cfg.min_data_points THEN InsufficientData
  ELSE
    LET sorted == Where(SortByYear(group), LAMBDA r : notna(r.vals[column]))
    IN  IF Len(sorted) < cfg.min_data_points THEN InsufficientData
        ELSE
          LET outliers == _detect_outliers(cfg, ColumnValues(sorted, column))
              group_clean == Filter(sorted, outliers, 1)
          IN  IF Len(group_clean) < cfg.min_data_points THEN Rat(0, 1)
              ELSE
                LET diffs == Diff(ColumnValues(group_clean, column))
                IN  IF Len(diffs) = 0 THEN Rat(0, 1)
                    ELSE WeightedAverage(diffs, ExpWeights(Len(diffs)))

(***************************************************************************)
(* _apply_constraints: the value (a rational of units, or NaN) brought     *)
(* into the domain of its column.  max(a, b) of Python is a unless b > a;  *)
(* np.clip(v, lo, hi) is minimum(maximum(v, lo), hi).                      *)
(***************************************************************************)
PyMax(a, b) == IF RatLess(a, b) THEN b ELSE a
PyMin(a, b) == IF RatLess(b, a) THEN b ELSE a
\* a clip that has no upper bound
ClipLowerOnly(v, lo, hi) == PyMax(v, lo)

Clip(v, lo, hi) == PyMin(PyMax(v, lo), hi)

_apply_constraints(cfg, column, value) ==
  IF value.nan THEN value
  ELSE IF column \in CARBON_INTENSITY_COLUMNS
    THEN PyMax(RatOfUnits(cfg.min_carbon_intensity), value)
  ELSE IF column \in CFE_COLUMNS
    THEN Clip(value, RatOfUnits(cfg.min_cfe), RatOfUnits(cfg.max_cfe))
  ELSE IF column = "power-usage-effectiveness"
    THEN PyMax(RatOfUnits(cfg.min_pue), value)
  ELSE IF column = "water-usage-effectiveness"
    THEN PyMax(RatOfUnits(0), value)
  ELSE value

(***************************************************************************)
(* _preserve_precision: the decimal places kept for a column.              *)
(***************************************************************************)
MaxPrecision == 6
DefaultPrecision == 3

RECURSIVE TrailingDigits(_, _)
\* the decimals left of a value of `digits` decimals once its trailing
\* zeros are stripped: len(f"{val:.10f}".rstrip('0').split('.')[1])
TrailingDigits(u, digits) ==
  IF digits = 0 THEN 0
  ELSE IF u % 10 = 0 THEN TrailingDigits(u \div 10, digits - 1)
  ELSE digits

DecimalPlaces(cell) ==
  IF cell.kind = "int" THEN 0 ELSE TrailingDigits(Abs(cell.v), ScaleDigits)

SetMax(S) == CHOOSE x \in S : \A y \in S : y <= x
SetMin(S) == CHOOSE x \in S : \A y \in S : x <= y

\* the precision of the least precise value
LeastPrecision(decimal_places) == SetMin(decimal_places \cup {MaxPrecision})

\* min(max(decimal_places), 6)
CappedPrecision(decimal_places) ==
  SetMin({SetMax(decimal_places), MaxPrecision})

_preserve_precision(rows, numeric, column) ==
  IF column \notin numeric THEN 0
  ELSE
    LET values == {rows[i].vals[column] : i \in {j \in DOMAIN rows : notna(rows[j].vals[column])}}
    IN  IF values = {} THEN DefaultPrecision
        ELSE CappedPrecision({DecimalPlaces(c) : c \in values})

(***************************************************************************)
(* estimate_future_years, step by step.                                    *)
(***************************************************************************)
\* num_years < 1 or num_years > self.config.max_estimate_years
NumYearsOutOfRangeInclusive(cfg, num_years) ==
  num_years < 1 \/ num_years >= cfg.max_estimate_years
NumYearsOutOfRange(cfg, num_years) ==
  num_years < 1 \/ num_years > cfg.max_estimate_years

\* self.df['year'].max(), of a table with rows
max_year(rows) == SetMax({rows[i].year : i \in DOMAIN rows})

\* self.df[self.df['year'] == max_year]
AllData(rows, year) == rows
most_recent_data(rows, year) == Where(rows, LAMBDA r : r.year = year)

\* list(range(max_year + 1, max_year + num_years + 1))
EstimatedYearsShort(base, num_years) == [i \in 1..(num_years - 1) |-> base + i]
estimated_years(base, num_years) == [i \in 1..num_years |-> base + i]

\* self.df[['year', 'cloud-provider', 'cloud-region', column]].dropna()
historical_data(rows, column) ==
  Where(rows, LAMBDA r : /\ r.provider # NaNStr
                         /\ r.region # NaNStr
                         /\ notna(r.vals[column]))

\* trends[column]: the trend of every (provider, region) group of the
\* column's historical data
Trends(cfg, rows, column) ==
  LET hist == historical_data(rows, column)
  IN  Eager([k \in {key(hist[i]) : i \in DOMAIN hist} |->
                _calculate_weighted_trend(cfg, Where(hist, LAMBDA r : key(r) = k),
                                          column)])

\* latest_value + (trend * years_ahead)
Extrapolate(latest_value, trend, years_ahead) ==
  IF trend.nan THEN NaNRat
  ELSE Rat(latest_value * trend.d + trend.n * years_ahead, trend.d)

\* round(estimated_value, precision) for precision > 0, else
\* int(round(estimated_value)); a precision beyond ScaleDigits rounds to
\* the unit (it arises only for a column without values)
RoundToPrecision(value, precision) ==
  LET step == Pow10(ScaleDigits - precision)
      units == RoundHalfEven(value.n, value.d * step) * step
  IN  IF value.nan THEN NaN
      ELSE IF precision > 0 THEN Float(units) ELSE PyInt(units)

\* the estimate of a present latest value: trend applied, constrained,
\* rounded
RoundThenConstrain(cfg, column, latest_value, trend, years_ahead, precision) ==
  LET rounded == RoundToPrecision(Extrapolate(latest_value, trend, years_ahead), precision)
      value == _apply_constraints(cfg, column, RatOfUnits(rounded.v))
  IN  IF rounded.kind = "nan" THEN NaN
      ELSE IF value.n = rounded.v THEN rounded ELSE Float(value.n)
EstimatedValue(cfg, column, latest_value, trend, years_ahead, precision) ==
  RoundToPrecision(
    _apply_constraints(cfg, column, Extrapolate(latest_value, trend, years_ahead)),
    precision)

\* the cell of a row without a latest value
NoRecentValueBlank(cell) == cell
NoRecentValue(cell) == NA

\* the cell of a row whose key has no trend
NoTrendConstrained(cfg, column, cell) ==
  IF notna(cell)
  THEN Float(_apply_constraints(cfg, column, RatOfUnits(cell.v)).n)
  ELSE NoRecentValue(cell)
NoTrend(cfg, column, cell) ==
  IF notna(cell) THEN cell ELSE NoRecentValue(cell)

\* new_values[i]: the estimate of one column of one row
NewValue(cfg, trends, column, row, years_ahead, precision) ==
  IF key(row) \in DOMAIN trends
  THEN IF notna(row.vals[column])
       THEN EstimatedValue(cfg, column, row.vals[column].v, trends[key(row)],
                           years_ahead, precision)
       ELSE NoRecentValue(row.vals[column])
  ELSE NoTrend(cfg, column, row.vals[column])

\* an estimate that writes its no-data mark into the columns it does not
\* estimate
YearEstimateAllColumns(cfg, recent, numeric, trends, precision, base, year) ==
  [i \in DOMAIN recent |->
     [recent[i] EXCEPT
        !.year = year,
        !.vals = [c \in ValueColumns |->
                    IF c \in numeric
                    THEN NewValue(cfg, trends[c], c, recent[i], year - base,
                                  precision[c])
                    ELSE NA]]]

\* year_estimate: the copy of the most recent rows estimated for one year
YearEstimate(cfg, recent, numeric, trends, precision, base, year) ==
  [i \in DOMAIN recent |->
     [recent[i] EXCEPT
        !.year = year,
        !.vals = [c \in ValueColumns |->
                    IF c \in numeric
                    THEN NewValue(cfg, trends[c], c, recent[i], year - base,
                                  precision[c])
                    ELSE recent[i].vals[c]]]]

RECURSIVE Concat(_)
\* pd.concat(estimated_data, ignore_index=True)
Concat(frames) ==
  IF frames = <<>> THEN <<>> ELSE Head(frames) \o Concat(Tail(frames))

RECURSIVE InsertByKey(_, _)
InsertByKey(s, x) ==
  IF s = <<>> THEN <<x>>
  ELSE IF YearDescKeyAsc(x, Head(s)) THEN <<x>> \o s
  ELSE <<Head(s)>> \o InsertByKey(Tail(s), x)

RECURSIVE SortYearDescKeyAsc(_)
SortYearDescKeyAsc(s) ==
  IF s = <<>> THEN <<>>
  ELSE InsertByKey(SortYearDescKeyAsc(SubSeq(s, 1, Len(s) - 1)), s[Len(s)])

\* final_df.sort_values(['year', 'cloud-provider', 'cloud-region'],
\*                      ascending=[False, True, True])
Unsorted(frame) == frame
sort_values(frame) == SortYearDescKeyAsc(frame)

\* the table a call returns when it raises nothing
FinalDf(cfg, rows, numeric, num_years) ==
  LET base == max_year(rows)
      recent == most_recent_data(rows, base)
      years == estimated_years(base, num_years)
      trends == Eager([c \in numeric |-> Trends(cfg, rows, c)])
      precision == Eager([c \in numeric |-> _preserve_precision(rows, numeric, c)])
  IN  sort_values(Concat([i \in DOMAIN years |->
                            YearEstimate(cfg, recent, numeric, trends, precision,
                                         base, years[i])]))

\* self.estimation_metadata of a call that raises nothing
MetadataCountingOutput(cfg, rows, numeric, num_years) ==
  [base_year |-> max_year(rows),
   estimated_years |-> estimated_years(max_year(rows), num_years),
   num_regions |-> Len(FinalDf(cfg, rows, numeric, num_years)),
   methodology |-> "weighted_trend_extrapolation",
   outlier_threshold |-> cfg.outlier_threshold,
   min_data_points |-> cfg.min_data_points]
Metadata(cfg, rows, numeric, num_years) ==
  [base_year |-> max_year(rows),
   estimated_years |-> estimated_years(max_year(rows), num_years),
   num_regions |-> Len(most_recent_data(rows, max_year(rows))),
   methodology |-> "weighted_trend_extrapolation",
   outlier_threshold |-> cfg.outlier_threshold,
   min_data_points |-> cfg.min_data_points]

(***************************************************************************)
(* The state.                                                              *)
(*   csv                  the rows of the input file, in file order        *)
(*   config               self.config                                      *)
(*   df                   self.df: None, or Some(rows)                     *)
(*   numeric_columns      self.numeric_columns                            *)
(*   estimation_metadata  self.estimation_metadata: None for {}            *)
(*   ret                  the last call of estimate_future_years: its      *)
(*                        argument, the error it raised ("" for none) and  *)
(*                        the table it returned                            *)
(*   load_ret             the call of load_and_validate_data: the columns  *)
(*                        its file lacks, the error it raised, the         *)
(*                        required columns the error names and the instant *)
(*                        of the call                                      *)
(*   log                  the records logged, as <<message, column,        *)
(*                        instant>>: the warnings, and the line that       *)
(*                        announces an estimation                          *)
(*   saved                the call of save_estimates: the error it raised, *)
(*                        the estimates file and the metadata file         *)
(*   exit_status          the status main ended with: None while it runs   *)
(*   call                 the last call of a helper in isolation           *)
(***************************************************************************)
NoCall == [called |-> FALSE, num_years |-> 0, raised |-> "", rows |-> <<>>]
\* a failure that hands back the rows it had at hand
RaisedWithPartial(num_years, error) ==
  [called |-> TRUE, num_years |-> num_years, raised |-> error,
   rows |-> <<BadYearRow>>]
Raised(num_years, error) ==
  [called |-> TRUE, num_years |-> num_years, raised |-> error, rows |-> <<>>]
Returned(num_years, rows) ==
  [called |-> TRUE, num_years |-> num_years, raised |-> "", rows |-> rows]

NotLoaded ==
  [called |-> FALSE, absent |-> {}, raised |-> "", missing |-> {}, at |-> 0]
Loaded(absent, now) ==
  [called |-> TRUE, absent |-> absent, raised |-> "", missing |-> {}, at |-> now]
LoadRaised(absent, missing, now) ==
  [called |-> TRUE, absent |-> absent, raised |-> "Missing required columns",
   missing |-> missing, at |-> now]

NotSaved ==
  [called |-> FALSE, raised |-> "", estimates |-> None, metadata |-> None]

NoUnitCall == [fn |-> ""]

\* the data-update scripts: no call of update_metadata_csv yet, and no call
\* of geocode_location yet
NoUpdate ==
  [called |-> FALSE, script |-> "", normalized |-> <<>>, metadata_df |-> <<>>,
   applications |-> 0, raised |-> "", has_changes |-> FALSE,
   stats |-> <<>>, updated_df |-> <<>>, result |-> <<>>]
NoGeocode == [pc |-> "idle"]

\* datetime.now(): the successive readings of the clock, and the calendar
\* year at each
Clock == <<2026, 2026, 2028>>
Instants == DOMAIN Clock
current_year(now) == Clock[now]

\* the reading of the clock that comes next: the one after the load's and
\* the last estimation's
NextInstant ==
  LET last == IF estimation_metadata = None THEN 0
              ELSE Get(estimation_metadata).estimation_date
  IN  (IF last > load_ret.at THEN last ELSE load_ret.at) + 1

Init ==
  /\ csv = <<>>
  /\ config \in Configs
  /\ df = None
  /\ numeric_columns = {}
  /\ estimation_metadata = None
  /\ ret = NoCall
  /\ load_ret = NotLoaded
  /\ log = {}
  /\ saved = NotSaved
  /\ exit_status = None
  /\ call = NoUnitCall
  /\ metadata_file = <<>>
  /\ update = NoUpdate
  /\ geo = NoGeocode

\* The input file is written before the run.  It lists its rows by year,
\* then region, then provider, and (provider, region, year) identifies a
\* row: a row is appended that comes after the last one in that order.
FileOrder(a, b) ==
  \/ a.year < b.year
  \/ a.year = b.year /\ RegionRank(a.region) < RegionRank(b.region)
  \/ /\ a.year = b.year
     /\ RegionRank(a.region) = RegionRank(b.region)
     /\ ProviderRank(a.provider) < ProviderRank(b.provider)

WriteRow(row) ==
  /\ df = None
  /\ ~ret.called
  /\ exit_status = None
  /\ Len(csv) < MaxRows
  /\ csv # <<>> => FileOrder(csv[Len(csv)], row)
  /\ csv' = Append(csv, row)
  /\ UNCHANGED <<config, df, numeric_columns, estimation_metadata, ret,
                 load_ret, log, saved, exit_status, call,
              metadata_file, update, geo>>

\* the columns of number dtype: select_dtypes(include=[np.number]) of a
\* table read by pd.read_csv (a table without rows has object columns)
NumericDtypeColumns(rows) ==
  {c \in ValueColumns : /\ rows # <<>>
                        /\ \A i \in DOMAIN rows : IsNumber(rows[i].vals[c])}

\* the headers a file may lack
AbsentColumns == {{}, {"cloud-region"}, {"year", "cloud-provider"}}

\* a check that looks for the year column alone
MissingColsYearOnly(absent) == {"year"} \cap absent

\* self.REQUIRED_COLUMNS - set(self.df.columns)
missing_cols(absent) == REQUIRED_COLUMNS \cap absent

\* a load that also rejects the rows whose PUE is out of range
DropInvalidRows(rows) ==
  SelectSeq(rows, LAMBDA r :
    /\ r.year # 0
    /\ ~(/\ r.vals["power-usage-effectiveness"].kind = "float"
          /\ r.vals["power-usage-effectiveness"].v < Hundredths(100)))

\* self.df.dropna(subset=['year']) after pd.to_numeric(errors='coerce')
dropna_year(rows) == SelectSeq(rows, LAMBDA r : r.year # BadYear)

invalid_years(rows) == Cardinality({i \in DOMAIN rows : rows[i].year = BadYear})

WarnIf(condition, message, column) ==
  IF condition THEN {<<message, column>>} ELSE {}

\* the records of a call, with the time the logger's format gives each
At(records, now) == {<<r[1], r[2], now>> : r \in records}

\* a value of the column satisfies Bad: len(self.df[Bad][col].dropna()) > 0
AnyValue(rows, column, Bad(_)) ==
  \E i \in DOMAIN rows :
    notna(rows[i].vals[column]) /\ Bad(rows[i].vals[column].v)

\* the warnings of _validate_data_ranges (the greatest year of a table
\* without rows is NaN, which compares false)
_validate_data_ranges(rows, numeric, now) ==
  WarnIf(rows # <<>> /\ max_year(rows) > current_year(now),
         "Data contains future years", "year")
  \cup WarnIf(rows # <<>> /\ current_year(now) - max_year(rows) > 2,
              "Data may be outdated", "year")
  \cup UNION {WarnIf(AnyValue(rows, col,
                              LAMBDA v : v < Hundredths(0) \/ v > Hundredths(100)),
                     "invalid CFE values", col) :
                col \in CFE_COLUMNS \cap numeric}
  \cup WarnIf(/\ "power-usage-effectiveness" \in numeric
              /\ AnyValue(rows, "power-usage-effectiveness",
                          LAMBDA v : v < Hundredths(100)),
              "invalid PUE values", "power-usage-effectiveness")
  \cup UNION {WarnIf(AnyValue(rows, col, LAMBDA v : v < Hundredths(0)),
                     "negative carbon intensity values", col) :
                col \in CARBON_INTENSITY_COLUMNS \cap numeric}

\* self.df is assigned as the file is read, before the columns are checked;
\* the clock is read once the columns are found
load_and_validate_data(absent, now) ==
  /\ df = None
  /\ ~ret.called
  /\ exit_status = None
  /\ now = NextInstant
  /\ IF missing_cols(absent) # {}
     THEN /\ df' = Some(csv)
          /\ load_ret' = LoadRaised(absent, missing_cols(absent), 0)
          /\ UNCHANGED <<numeric_columns, log>>
     ELSE /\ df' = Some(dropna_year(csv))
          /\ numeric_columns' = NumericDtypeColumns(csv)
          /\ load_ret' = Loaded(absent, now)
          /\ log' = log \cup
               At(WarnIf(invalid_years(csv) > 0, "invalid year values", "year")
                    \cup _validate_data_ranges(dropna_year(csv),
                                               NumericDtypeColumns(csv), now),
                  now)
  /\ UNCHANGED <<csv, config, estimation_metadata, ret, saved, exit_status, call,
              metadata_file, update, geo>>

\* a metadata whose base year is taken from the clock
StampBaseYear(metadata, now) ==
  [estimation_date |-> now, base_year |-> Clock[now]] @@ metadata

\* the metadata with its 'estimation_date': datetime.now().isoformat()
Stamp(metadata, now) == [estimation_date |-> now] @@ metadata

\* what a call raises on a table whose load raised: self.df holds the file
\* as read, without a required column and with its years not coerced
AfterFailedLoad(num_years) ==
  IF "year" \in load_ret.missing THEN Raised(num_years, "KeyError")
  ELSE IF invalid_years(Get(df)) > 0 THEN Raised(num_years, "TypeError")
  ELSE IF Get(df) = <<>>
    THEN Raised(num_years, "No data found for most recent year")
  ELSE Raised(num_years, "KeyError")

\* logger.info(f"Generating estimates for {num_years} year(s) ...")
Generating(num_years) ==
  "Generating estimates for " \o ToString(num_years) \o " year(s)"

\* the records a call logs once it has read the greatest year: the warning
\* of old data, and the line that announces the estimation
CallLog(rows, num_years, now) ==
  WarnIf(rows # <<>> /\ current_year(now) - max_year(rows) > 2,
         "Estimating based on old data", "year")
    \cup {<<Generating(num_years), "year">>}

\* A call of estimate_future_years, at the next reading of the clock.  A
\* call that raises ends the run (main logs the error and exits): the
\* estimator is called again only after a call that returned.
Estimate(num_years, now) ==
  /\ ret.raised = ""
  /\ ~saved.called
  /\ exit_status = None
  /\ now = NextInstant
  /\ IF df = None
     THEN /\ ret' = Raised(num_years, "No data loaded")
          /\ UNCHANGED <<estimation_metadata, log>>
     ELSE IF NumYearsOutOfRange(config, num_years)
     THEN /\ ret' = Raised(num_years, "num_years must be between")
          /\ UNCHANGED <<estimation_metadata, log>>
     ELSE IF load_ret.raised # ""
     THEN /\ ret' = AfterFailedLoad(num_years)
          /\ log' = IF "year" \in load_ret.missing \/ invalid_years(Get(df)) > 0
                    THEN log
                    ELSE log \cup At(CallLog(Get(df), num_years, now), now)
          /\ UNCHANGED estimation_metadata
     ELSE IF Get(df) = <<>>
     THEN /\ ret' = Raised(num_years, "No data found for most recent year")
          /\ log' = log \cup At(CallLog(Get(df), num_years, now), now)
          /\ UNCHANGED estimation_metadata
     ELSE /\ ret' = Returned(num_years, FinalDf(config, Get(df), numeric_columns, num_years))
          /\ estimation_metadata' =
               Some(Stamp(Metadata(config, Get(df), numeric_columns, num_years), now))
          /\ log' = log \cup At(CallLog(Get(df), num_years, now), now)
  /\ UNCHANGED <<csv, config, df, numeric_columns, load_ret, saved, exit_status, call,
              metadata_file, update, geo>>

\* the call main makes
estimate_future_years(num_years, now) ==
  ~ret.called /\ Estimate(num_years, now)

\* a further call on the same estimator
estimate_again(num_years, now) ==
  ret.called /\ Estimate(num_years, now)

\* estimates_df.to_csv(output_file, index=False, na_rep='NA')
na_rep(cell) == IF notna(cell) THEN cell ELSE NA

to_csv(rows) ==
  [i \in DOMAIN rows |->
     [rows[i] EXCEPT !.vals = [c \in ValueColumns |-> na_rep(rows[i].vals[c])]]]

\* the keys of self.estimation_metadata, in the order json.dump writes them
MetadataKeys ==
  <<"estimation_date", "base_year", "estimated_years", "num_regions",
    "methodology", "outlier_threshold", "min_data_points">>

\* the keys whose value is a numpy scalar: max_year is
\* self.df['year'].max(), a numpy.int64, which json cannot encode
NumpyScalarKeys == {"base_year"}

\* json.dump(self.estimation_metadata, f, indent=2): the keys written, and
\* the error raised at the first value that cannot be encoded
json_dump(keys) ==
  LET bad == {i \in DOMAIN keys : keys[i] \in NumpyScalarKeys}
  IN  IF bad = {} THEN [written |-> keys, raised |-> ""]
      ELSE [written |-> SubSeq(keys, 1, SetMin(bad) - 1), raised |-> "TypeError"]

\* main saves the table a call returned: the estimates file is written,
\* then the metadata file
save_estimates ==
  /\ ret.called
  /\ ret.raised = ""
  /\ ~saved.called
  /\ exit_status = None
  /\ saved' = [called |-> TRUE,
               raised |-> json_dump(MetadataKeys).raised,
               estimates |-> Some(to_csv(ret.rows)),
               metadata |-> Some(json_dump(MetadataKeys).written)]
  /\ UNCHANGED <<csv, config, df, numeric_columns, estimation_metadata, ret,
                 load_ret, log, exit_status, call,
              metadata_file, update, geo>>

\* main ends: sys.exit(1) from its except clause when a step raised, a
\* normal return otherwise
main_exit ==
  /\ exit_status = None
  /\ load_ret.raised # "" \/ ret.raised # "" \/ saved.called
  /\ exit_status' =
       Some(IF load_ret.raised # "" \/ ret.raised # "" \/ saved.raised # ""
            THEN 1 ELSE 0)
  /\ UNCHANGED <<csv, config, df, numeric_columns, estimation_metadata, ret,
                 load_ret, log, saved, call,
              metadata_file, update, geo>>

Next ==
  \/ \E row \in InputRows : WriteRow(row)
  \/ \E absent \in AbsentColumns : \E now \in Instants :
       load_and_validate_data(absent, now)
  \/ \E num_years \in 0..MaxNumYears : \E now \in Instants :
       estimate_future_years(num_years, now)
  \/ save_estimates
  \/ main_exit

Spec == Init /\ [][Next]_vars

\* An estimator that is kept and called again: the file, the load and the
\* calls of estimate_future_years, one after another.
ReuseNext ==
  \/ \E row \in InputRows : WriteRow(row)
  \/ \E absent \in AbsentColumns : \E now \in Instants :
       load_and_validate_data(absent, now)
  \/ \E num_years \in 0..MaxNumYears : \E now \in Instants :
       estimate_future_years(num_years, now)
  \/ \E num_years \in 0..MaxNumYears : \E now \in Instants :
       estimate_again(num_years, now)

ReuseSpec == Init /\ [][ReuseNext]_vars

(***************************************************************************)
(* What the properties speak of: the loaded table, its base year and base  *)
(* rows, and the cells of the table the last call returned.                *)
(***************************************************************************)
\* the last call returned, and main has not yet saved its table (saving
\* and ending change none of what a call leaves)
Succeeded == ret.called /\ ret.raised = "" /\ ~saved.called
Table == Get(df)
BaseYear == CHOOSE y \in {Table[i].year : i \in DOMAIN Table} :
              \A i \in DOMAIN Table : Table[i].year <= y
BaseIdx == {i \in DOMAIN Table : Table[i].year = BaseYear}
ForecastYears == (BaseYear + 1)..(BaseYear + ret.num_years)
Named(r) == r.provider # NaNStr /\ r.region # NaNStr
OutIdx(y, k) ==
  {j \in DOMAIN ret.rows : ret.rows[j].year = y /\ key(ret.rows[j]) = k}
OutCell(y, k, c) == ret.rows[CHOOSE j \in OutIdx(y, k) : TRUE].vals[c]
Observations(k, c) ==
  {i \in DOMAIN Table : key(Table[i]) = k /\ notna(Table[i].vals[c])}
IsNumeric(cell) == cell.kind \in {"float", "int"}
TrendKnown(k, c) == k \in DOMAIN Trends(config, Table, c)
Precision(c) == _preserve_precision(Table, numeric_columns, c)
Step(c) == Pow10(ScaleDigits - Precision(c))
Candidate(r, c, years_ahead) ==
  _apply_constraints(config, c,
    Extrapolate(r.vals[c].v, Trends(config, Table, c)[key(r)], years_ahead))
\* cell is value rounded to the precision of column c: a multiple of the
\* column's step, no further from value than half a step
IsRounded(cell, value, c) ==
  /\ IsNumeric(cell)
  /\ cell.v % Step(c) = 0
  /\ 2 * Abs(cell.v * value.d - value.n) <= value.d * Step(c)
  /\ cell.kind = "int" <=> Precision(c) = 0

InDomain(c, v) ==
  /\ c \in CARBON_INTENSITY_COLUMNS => v >= config.min_carbon_intensity
  /\ c \in CFE_COLUMNS => v >= config.min_cfe /\ v <= config.max_cfe
  /\ c = "power-usage-effectiveness" => v >= config.min_pue
  /\ c = "water-usage-effectiveness" => v >= 0

(***************************************************************************)
(* C1.  Every numeric forecast value of a returned row lies in the domain  *)
(* of its column: PUE >= min_pue, the CFE columns within [min_cfe,         *)
(* max_cfe], the carbon-intensity columns >= min_carbon_intensity, WUE     *)
(* >= 0.  It is stated here for the rows of an entity (provider and        *)
(* region present), whose values go through the constraints; the code      *)
(* rounds after it constrains, and rounding to the column's precision      *)
(* takes a value that was raised to a finer bound back below it.           *)
(***************************************************************************)
C1_ConstraintInvariant ==
  Succeeded =>
    \A j \in DOMAIN ret.rows : \A c \in numeric_columns :
      Named(ret.rows[j]) /\ IsNumeric(ret.rows[j].vals[c])
        => InDomain(c, ret.rows[j].vals[c].v)

(***************************************************************************)
(* C2.  Forecasts are not chained: the rows a call for N + 1 years returns *)
(* for the years up to base_year + N are the rows a call for N years       *)
(* returns for them.                                                       *)
(***************************************************************************)
YearRows(rows, y) == SelectSeq(rows, LAMBDA r : r.year = y)

C2_NotChained ==
  Succeeded /\ ret.num_years >= 2 =>
    \A y \in (BaseYear + 1)..(BaseYear + ret.num_years - 1) :
      YearRows(ret.rows, y)
        = YearRows(FinalDf(config, Table, numeric_columns, ret.num_years - 1), y)

C2_Witness ==
  /\ Succeeded
  /\ ret.num_years = 3
  /\ \E i \in BaseIdx :
       /\ Named(Table[i])
       /\ OutIdx(BaseYear + 1, key(Table[i])) # {}
       /\ OutIdx(BaseYear + 2, key(Table[i])) # {}
       /\ OutCell(BaseYear + 1, key(Table[i]), "power-usage-effectiveness")
            # OutCell(BaseYear + 2, key(Table[i]), "power-usage-effectiveness")

C4_ParameterError ==
  ret.called /\ df # None =>
    /\ ret.raised = "num_years must be between"
         <=> (ret.num_years < 1 \/ ret.num_years > config.max_estimate_years)
    /\ ret.raised # "" => ret.rows = <<>>

C4_Witness ==
  /\ ret.called
  /\ df # None
  /\ ret.num_years = config.max_estimate_years + 1
  /\ ret.raised = "num_years must be between"

(***************************************************************************)
(* C5.  The returned table has exactly one row for every forecast year and *)
(* every base-year row of the input, num_years times the number of base    *)
(* rows in all, and no row of an entity without a row at the base year.    *)
(***************************************************************************)
C5_OneRowPerYearAndBaseRow ==
  Succeeded =>
    /\ Len(ret.rows) = ret.num_years * Cardinality(BaseIdx)
    /\ \A y \in ForecastYears : \A i \in BaseIdx :
         Cardinality(OutIdx(y, key(Table[i]))) = 1
    /\ \A j \in DOMAIN ret.rows :
         /\ ret.rows[j].year \in ForecastYears
         /\ \E i \in BaseIdx : key(Table[i]) = key(ret.rows[j])

\* an entity with history and no base-year row, beside base rows
C5_Witness ==
  /\ Succeeded
  /\ ret.num_years >= 2
  /\ \E i \in DOMAIN Table :
       \A b \in BaseIdx : key(Table[b]) # key(Table[i])

(***************************************************************************)
(* C6.  After a call that returned, estimation_metadata is one record      *)
(* with base_year the greatest year of the input, estimated_years the      *)
(* increasing sequence base_year + 1 .. base_year + num_years (the years   *)
(* of the returned rows), num_regions the number of base-year rows, the    *)
(* methodology tag, and the outlier threshold and minimum number of data   *)
(* points of the configuration.                                            *)
(***************************************************************************)
C6_Metadata ==
  Succeeded =>
    /\ estimation_metadata # None
    /\ [k \in DOMAIN Get(estimation_metadata) \ {"estimation_date"} |->
          Get(estimation_metadata)[k]] =
         [base_year |-> BaseYear,
          estimated_years |-> [i \in 1..ret.num_years |-> BaseYear + i],
          num_regions |-> Cardinality(BaseIdx),
          methodology |-> "weighted_trend_extrapolation",
          outlier_threshold |-> config.outlier_threshold,
          min_data_points |-> config.min_data_points]
    /\ {ret.rows[j].year : j \in DOMAIN ret.rows}
         = Range(Get(estimation_metadata).estimated_years)

C6_Witness ==
  /\ Succeeded
  /\ ret.num_years >= 2
  /\ Cardinality(BaseIdx) >= 2
  /\ estimation_metadata # None
  /\ Len(Get(estimation_metadata).estimated_years) = ret.num_years

(***************************************************************************)
(* C7.  Where the trend of an entity is known and its base-year value is   *)
(* present, the emitted value is the candidate base + trend * years_ahead, *)
(* constrained and then rounded to the precision of the column, an integer *)
(* when that precision is 0.                                               *)
(***************************************************************************)
C7_ConstrainThenRound ==
  Succeeded =>
    \A i \in BaseIdx : \A c \in numeric_columns : \A y \in ForecastYears :
      TrendKnown(key(Table[i]), c) /\ notna(Table[i].vals[c])
        => /\ OutIdx(y, key(Table[i])) # {}
           /\ IsRounded(OutCell(y, key(Table[i]), c),
                        Candidate(Table[i], c, y - BaseYear), c)

\* a weighted trend of three observations, and a candidate that the
\* constraint changes
C7_Witness ==
  /\ Succeeded
  /\ \E i \in BaseIdx : \E c \in numeric_columns :
       /\ TrendKnown(key(Table[i]), c)
       /\ notna(Table[i].vals[c])
       /\ Trends(config, Table, c)[key(Table[i])].d > 1
       /\ Trends(config, Table, c)[key(Table[i])].n # 0
       /\ ~RatEq(Candidate(Table[i], c, 1),
                 Extrapolate(Table[i].vals[c].v,
                             Trends(config, Table, c)[key(Table[i])], 1))

(***************************************************************************)
(* C8.  As claimed: an entity with a base-year value for a metric and      *)
(* fewer than min_data_points observations of it has the base-year value   *)
(* carried forward unchanged, neither clamped nor rounded, into every      *)
(* forecast year.                                                          *)
(***************************************************************************)
C8_CarriedForwardUnchanged ==
  Succeeded =>
    \A i \in BaseIdx : \A c \in numeric_columns : \A y \in ForecastYears :
      /\ Named(Table[i])
      /\ notna(Table[i].vals[c])
      /\ Cardinality(Observations(key(Table[i]), c)) < config.min_data_points
      => /\ OutIdx(y, key(Table[i])) # {}
         /\ IsNumeric(OutCell(y, key(Table[i]), c))
         /\ OutCell(y, key(Table[i]), c).v = Table[i].vals[c].v

(***************************************************************************)
(* C8, amended.  An entity with a base-year value and fewer than           *)
(* min_data_points observations of a metric has trend 0, and every         *)
(* forecast year gets the base-year value constrained to the domain of the *)
(* metric and rounded to the precision of the column.  The base-year value *)
(* is carried forward unchanged only in a row whose (provider, region) has *)
(* no trend entry: a row with a missing provider or region.                *)
(***************************************************************************)
C8_Amended ==
  Succeeded =>
    \A i \in BaseIdx : \A c \in numeric_columns : \A y \in ForecastYears :
      notna(Table[i].vals[c]) =>
        /\ OutIdx(y, key(Table[i])) # {}
        /\ /\ Named(Table[i])
           /\ Cardinality(Observations(key(Table[i]), c)) < config.min_data_points
           => IsRounded(OutCell(y, key(Table[i]), c),
                        _apply_constraints(config, c, RatOfUnits(Table[i].vals[c].v)),
                        c)
        /\ ~TrendKnown(key(Table[i]), c)
           => /\ ~Named(Table[i])
              /\ OutCell(y, key(Table[i]), c) = Table[i].vals[c]

\* a single observation that the constraint changes, and a row without a
\* trend entry
C8_Witness ==
  /\ Succeeded
  /\ \E i \in BaseIdx : \E c \in numeric_columns :
       /\ Named(Table[i])
       /\ notna(Table[i].vals[c])
       /\ Cardinality(Observations(key(Table[i]), c)) < config.min_data_points
       /\ OutCell(BaseYear + 1, key(Table[i]), c).v # Table[i].vals[c].v
  /\ \E i \in BaseIdx : \E c \in numeric_columns :
       /\ ~Named(Table[i])
       /\ notna(Table[i].vals[c])
       /\ ~InDomain(c, Table[i].vals[c].v)
       /\ OutCell(BaseYear + 1, key(Table[i]), c) = Table[i].vals[c]

(***************************************************************************)
(* C9.  An entity with exactly one observation of a metric has trend 0 for *)
(* it, and its forecast value is the same in every forecast year: the      *)
(* base-year value, constrained and rounded.                               *)
(***************************************************************************)
C9_SingleObservation ==
  Succeeded =>
    \A i \in BaseIdx : \A c \in numeric_columns :
      /\ Named(Table[i])
      /\ notna(Table[i].vals[c])
      /\ Cardinality(Observations(key(Table[i]), c)) = 1
      => /\ TrendKnown(key(Table[i]), c)
         /\ Trends(config, Table, c)[key(Table[i])] = Rat(0, 1)
         /\ \A y \in ForecastYears :
              /\ OutIdx(y, key(Table[i])) # {}
              /\ OutCell(y, key(Table[i]), c)
                   = OutCell(BaseYear + 1, key(Table[i]), c)
              /\ IsRounded(OutCell(y, key(Table[i]), c),
                           _apply_constraints(config, c,
                                              RatOfUnits(Table[i].vals[c].v)),
                           c)

C9_Witness ==
  /\ Succeeded
  /\ ret.num_years >= 2
  /\ \E i \in BaseIdx :
       /\ Named(Table[i])
       /\ Cardinality(Observations(key(Table[i]), "provider-cfe-annual")) = 1
       /\ notna(Table[i].vals["provider-cfe-annual"])
       /\ OutCell(BaseYear + 2, key(Table[i]), "provider-cfe-annual")
            = Float(config.max_cfe)

(***************************************************************************)
(* C10.  A missing base-year value never aborts a call: a call on a table  *)
(* with rows and a num_years in range returns, and every cell of a metric  *)
(* whose base-year value is missing holds the no-data mark "NA" in every   *)
(* forecast year, whether the entity has a trend for the metric or not,    *)
(* beside the other cells of its row.                                      *)
(***************************************************************************)
C10_NoDataMark ==
  /\ /\ ret.called
     /\ df # None
     /\ load_ret.raised = ""
     /\ Get(df) # <<>>
     /\ ret.num_years \in 1..config.max_estimate_years
     => ret.raised = ""
  /\ Succeeded =>
       \A i \in BaseIdx : \A c \in numeric_columns : \A y \in ForecastYears :
         ~notna(Table[i].vals[c])
           => /\ OutIdx(y, key(Table[i])) # {}
              /\ OutCell(y, key(Table[i]), c) = NA
              /\ DOMAIN ret.rows[CHOOSE j \in OutIdx(y, key(Table[i])) : TRUE].vals
                   = ValueColumns

\* a missing base-year value of an entity with a trend for the metric, and
\* one of a row without a trend entry
C10_Witness ==
  /\ Succeeded
  /\ \E i \in BaseIdx : \E c \in numeric_columns :
       /\ ~notna(Table[i].vals[c])
       /\ TrendKnown(key(Table[i]), c)
       /\ OutCell(BaseYear + 1, key(Table[i]), c) = NA
  /\ \E i \in BaseIdx : \E c \in numeric_columns :
       /\ ~notna(Table[i].vals[c])
       /\ ~TrendKnown(key(Table[i]), c)
       /\ OutCell(BaseYear + 1, key(Table[i]), c) = NA

(***************************************************************************)
(* C11.  "Never tracked" stays distinct from "unknown": a metric column    *)
(* without any historical value in the input is blank (missing) in every   *)
(* returned row, and does not hold the no-data mark.                       *)
(***************************************************************************)
NeverTracked(c) == \A i \in DOMAIN Table : ~notna(Table[i].vals[c])

C11_NeverTrackedStaysBlank ==
  Succeeded =>
    \A c \in MetricColumns :
      NeverTracked(c) => \A j \in DOMAIN ret.rows : ret.rows[j].vals[c] = NaN

(***************************************************************************)
(* The helpers in isolation.  A helper is called once, on arguments drawn  *)
(* from the sets below, by an estimator that holds one of UnitConfigs; the *)
(* call and what it returned are kept in call.                             *)
(***************************************************************************)
\* the longest series a helper is called on
MaxSeries == 4

\* a configuration whose bounds all differ from the default ones, and
\* which asks for three data points
PickyConfig ==
  [min_pue |-> Hundredths(110),
   max_cfe |-> Hundredths(90),
   min_cfe |-> Hundredths(10),
   min_carbon_intensity |-> Hundredths(5),
   max_estimate_years |-> 3,
   min_data_points |-> 3,
   outlier_threshold |-> [n |-> 1, d |-> 1]]

UnitConfigs == Configs \cup {PickyConfig}

\* the values of a series: a CFE of 0.91 and 0.97, a PUE of 1.16, 1.18
\* and 1.20, and 1.50, far from them all
UnitValues ==
  {Hundredths(91), Hundredths(97), Hundredths(116), Hundredths(118),
   Hundredths(120), Hundredths(150)}

UnitCells == {Float(v) : v \in UnitValues} \cup {NaN}

SeqsUpTo(S, n) == UNION {[1..k -> S] : k \in 0..n}

UnitColumn == "power-usage-effectiveness"

\* the rows of one (provider, region) over consecutive years, the column
\* holding the cells
UnitGroup(cells) ==
  [i \in DOMAIN cells |->
     [year |-> 2020 + i, provider |-> "aws", region |-> "eu-west-1",
      vals |-> [c \in ValueColumns |->
                  IF c = UnitColumn THEN cells[i] ELSE LowProfile[c]]]]

\* the column names _apply_constraints is called with: the constrained
\* ones, and names that differ from one in case, in a suffix, or entirely
UnitColumns ==
  CARBON_INTENSITY_COLUMNS \cup CFE_COLUMNS \cup EFFICIENCY_COLUMNS
    \cup {"Power-Usage-Effectiveness", "PROVIDER-CFE-ANNUAL",
          "grid-carbon-intensity-marginal", "water-usage",
          "total-ICT-energy-consumption-annual"}

\* the values it is called with: in and out of every domain, one that is
\* not a whole number of units, and NaN
UnitCandidates ==
  {Rat(Hundredths(h), 1) : h \in {-500, -10, 0, 3, 5, 50, 95, 100, 102, 104, 120}}
    \cup {Rat(Hundredths(205), 2), NaNRat}

UnitInit ==
  /\ csv = <<>>
  /\ config \in UnitConfigs
  /\ df = None
  /\ numeric_columns = {}
  /\ estimation_metadata = None
  /\ ret = NoCall
  /\ load_ret = NotLoaded
  /\ log = {}
  /\ saved = NotSaved
  /\ exit_status = None
  /\ call = NoUnitCall
  /\ metadata_file = <<>>
  /\ update = NoUpdate
  /\ geo = NoGeocode

UnitFrame ==
  UNCHANGED <<csv, config, df, numeric_columns, estimation_metadata, ret,
              load_ret, log, saved, exit_status, metadata_file, update, geo>>

Call_detect_outliers(series) ==
  /\ call = NoUnitCall
  /\ call' = [fn |-> "_detect_outliers", series |-> series,
              out |-> _detect_outliers(config, series)]
  /\ UnitFrame

Call_calculate_weighted_trend(cells) ==
  /\ call = NoUnitCall
  /\ call' = [fn |-> "_calculate_weighted_trend", cells |-> cells,
              out |-> _calculate_weighted_trend(config, UnitGroup(cells),
                                                UnitColumn)]
  /\ UnitFrame

Call_apply_constraints(column, value) ==
  /\ call = NoUnitCall
  /\ call' = [fn |-> "_apply_constraints", column |-> column, value |-> value,
              out |-> _apply_constraints(config, column, value)]
  /\ UnitFrame

\* the longer series _detect_outliers is called with: two values, so that
\* one point can stand alone against all the others
LongSeries == 11
LongValues == {Hundredths(116), Hundredths(118)}

\* the decimals f"{val:.10f}" prints
FormatDecimals == 10

\* the end of _preserve_precision, on the decimal places counted for the
\* values of a column
Call_preserve_precision(decimal_places) ==
  /\ call = NoUnitCall
  /\ call' = [fn |-> "_preserve_precision", decimal_places |-> decimal_places,
              out |-> CappedPrecision(decimal_places)]
  /\ UnitFrame

UnitNext ==
  \/ \E series \in SeqsUpTo(UnitValues, MaxSeries) : Call_detect_outliers(series)
  \/ \E series \in SeqsUpTo(LongValues, LongSeries) : Call_detect_outliers(series)
  \/ \E cells \in SeqsUpTo(UnitCells, MaxSeries) :
       Call_calculate_weighted_trend(cells)
  \/ \E column \in UnitColumns : \E value \in UnitCandidates :
       Call_apply_constraints(column, value)
  \/ \E a, b \in 0..FormatDecimals : Call_preserve_precision({a, b})

UnitSpec == UnitInit /\ [][UnitNext]_vars

(***************************************************************************)
(* What the properties of a helper speak of: the call in isolation.        *)
(***************************************************************************)
TrendCall == call.fn = "_calculate_weighted_trend"
OutlierCall == call.fn = "_detect_outliers"
ConstraintCall == call.fn = "_apply_constraints"

\* s without its element p
WithoutIndex(s, p) ==
  [i \in 1..(Len(s) - 1) |-> IF i < p THEN s[i] ELSE s[i + 1]]

NoneMissing(cells) == \A i \in DOMAIN cells : notna(cells[i])
CellValues(cells) == [i \in DOMAIN cells |-> cells[i].v]

\* x lies more than three standard deviations of the series rest (which has
\* at least two values, not all equal) from its mean: with m values of sum
\* S and SS the sum of the squares of m * rest[i] - S,
\*   |x - S / m| > 3 * sqrt(SS / (m * m * (m - 1)))
ExtremeFor(x, rest) ==
  LET m == Len(rest)
      d == m * x - SumSeq(rest)
      ss == SumOfSquares(Deviations(rest))
  IN  m >= 2 /\ ss > 0 /\ d * d * (m - 1) > 9 * ss

SameTrend(a, b) == a.nan = b.nan /\ (~a.nan => RatEq(a, b))

(***************************************************************************)
(* C12.  Outlier suppression: a series with one extreme point, more than   *)
(* three standard deviations from the rest of the series, has the trend of *)
(* the same series without that point.                                     *)
(***************************************************************************)
C12_OutlierSuppressed ==
  TrendCall /\ NoneMissing(call.cells) =>
    \A p \in DOMAIN call.cells :
      ExtremeFor(call.cells[p].v, CellValues(WithoutIndex(call.cells, p)))
        => SameTrend(call.out,
                     _calculate_weighted_trend(
                       config, WithoutIndex(UnitGroup(call.cells), p), UnitColumn))

(***************************************************************************)
(* C13.  A run of main that fails at a step ends with a non-zero status    *)
(* and leaves no estimates file written; a run whose load and estimation   *)
(* raise nothing (warnings apart) ends normally, with the whole estimates  *)
(* table and the whole metadata written.                                   *)
(***************************************************************************)
RunEnded == exit_status # None
StepRaised == load_ret.raised # "" \/ ret.raised # "" \/ saved.raised # ""

C13_FailedRunWritesNothing ==
  RunEnded =>
    /\ StepRaised => Get(exit_status) # 0 /\ saved.estimates = None
    /\ load_ret.called /\ load_ret.raised = "" /\ ret.called /\ ret.raised = ""
         => /\ Get(exit_status) = 0
            /\ saved.estimates = Some(to_csv(ret.rows))
            /\ saved.metadata = Some(MetadataKeys)

(***************************************************************************)
(* C14: load_and_validate_data fails with an error naming the set of       *)
(* missing columns whenever any of year, cloud-provider, cloud-region is   *)
(* absent from the input table, and no estimation can then proceed on that *)
(* table: every call of estimate_future_years raises, no metadata is       *)
(* recorded and no table is written.  With all three columns present the   *)
(* load does not fail.                                                     *)
(***************************************************************************)
C14_MissingColumnsFail ==
  load_ret.called =>
    LET gone == load_ret.absent \cap {"year", "cloud-provider", "cloud-region"}
    IN  IF gone # {}
        THEN /\ load_ret.raised = "Missing required columns"
             /\ load_ret.missing = gone
             /\ numeric_columns = {}
             /\ ret.called => ret.raised # "" /\ ret.rows = <<>>
             /\ estimation_metadata = None
             /\ saved.estimates = None
        ELSE load_ret.raised = ""

\* a table with rows and a year column, without its region column, on which
\* an estimation was attempted after the failed load
C14_Witness ==
  /\ load_ret.called
  /\ load_ret.missing = {"cloud-region"}
  /\ Len(csv) >= 2
  /\ ret.called
  /\ ret.num_years = 1
  /\ exit_status = Some(1)

(***************************************************************************)
(* C15: validation is advisory.  A load that finds its required columns    *)
(* never raises; the rows whose year cannot be parsed are dropped with a   *)
(* warning, and every other row of the file is in the loaded table,        *)
(* unchanged and in the file's order, whatever its values; a CFE outside   *)
(* [0,1], a PUE below 1.0, a negative carbon intensity and a most recent   *)
(* year more than two years before the current year each produce a         *)
(* warning and nothing else.                                               *)
(***************************************************************************)
ParseableYear == {i \in DOMAIN csv : csv[i].year # 0}

\* a number of the loaded table's column satisfies Bad
Anomaly(column, Bad(_)) ==
  \E i \in ParseableYear :
    csv[i].vals[column].kind = "float" /\ Bad(csv[i].vals[column].v)

Warned(message, column) == <<message, column, load_ret.at>> \in log

C15_ValidationAdvisory ==
  load_ret.called /\ load_ret.missing = {} =>
    /\ load_ret.raised = ""
    /\ df # None
    /\ Len(Get(df)) = Cardinality(ParseableYear)
    /\ \A i \in ParseableYear :
         Get(df)[Cardinality({j \in ParseableYear : j <= i})] = csv[i]
    /\ ParseableYear # DOMAIN csv <=> Warned("invalid year values", "year")
    /\ \A col \in {"provider-cfe-annual", "provider-cfe-hourly"} :
         Anomaly(col, LAMBDA v : v < 0 \/ v > Hundredths(100))
           <=> Warned("invalid CFE values", col)
    /\ Anomaly("power-usage-effectiveness", LAMBDA v : v < Hundredths(100))
         <=> Warned("invalid PUE values", "power-usage-effectiveness")
    /\ Anomaly("grid-carbon-intensity", LAMBDA v : v < 0)
         <=> Warned("negative carbon intensity values", "grid-carbon-intensity")
    /\ (\E i \in ParseableYear :
          \A j \in ParseableYear : csv[j].year <= csv[i].year
                                     /\ Clock[load_ret.at] - csv[i].year > 2)
         <=> Warned("Data may be outdated", "year")

\* a file with an unparseable year and a row of range anomalies, loaded with
\* the anomalous row kept and the warnings logged, and then estimated
C15_Witness ==
  /\ load_ret.called
  /\ load_ret.raised = ""
  /\ \E i, j \in DOMAIN csv : csv[i] = BadYearRow /\ csv[j] = AnomalousRow
  /\ \E i \in DOMAIN Get(df) : Get(df)[i] = AnomalousRow
  /\ Len(Get(df)) < Len(csv)
  /\ Warned("invalid PUE values", "power-usage-effectiveness")
  /\ Warned("invalid CFE values", "provider-cfe-annual")
  /\ Warned("negative carbon intensity values", "grid-carbon-intensity")
  /\ ret.called
  /\ ret.raised = ""

\* a file whose most recent year is more than two years old, loaded
C15_WitnessOutdated ==
  /\ load_ret.called
  /\ load_ret.raised = ""
  /\ Warned("Data may be outdated", "year")
  /\ Len(Get(df)) >= 2

(***************************************************************************)
(* C16: determinism.  A call of estimate_future_years made on the table    *)
(* and configuration of an earlier call, with the same num_years and at a  *)
(* later time (another calendar year, other warnings), returns the same    *)
(* table, values and row order, and records the same metadata apart from   *)
(* estimation_date.                                                        *)
(***************************************************************************)
SansDate(metadata) ==
  [k \in DOMAIN metadata \ {"estimation_date"} |-> metadata[k]]

CalledAgain ==
  /\ ret.called /\ ret.raised = ""
  /\ ret'.called /\ ret'.raised = ""
  /\ ret'.num_years = ret.num_years
  /\ df' = df /\ config' = config
  /\ Get(estimation_metadata').estimation_date
       # Get(estimation_metadata).estimation_date

SampleFlagged(series, i, threshold) ==
  LET n == Len(series)
      D == [j \in DOMAIN series |-> n * series[j] - SumSeq(series)]
      SS == SumSeq([j \in DOMAIN series |-> D[j] * D[j]])
  IN  /\ n >= 3
      /\ D[i] * D[i] * (n - 1) * threshold.d * threshold.d
           > threshold.n * threshold.n * SS

PresentValues(cells) == CellValues(SelectSeq(cells, LAMBDA c : notna(c)))

Kept(series, threshold) ==
  LET idx == SelectSeq([i \in DOMAIN series |-> i],
                       LAMBDA i : ~SampleFlagged(series, i, threshold))
  IN  [k \in DOMAIN idx |-> series[idx[k]]]

Retained == Kept(PresentValues(call.cells), config.outlier_threshold)

(***************************************************************************)
(* C17: when the retained observations of a metric, at least two and at    *)
(* least min_data_points of them, have consecutive differences all equal   *)
(* to d, the trend is exactly d, and the forecast k years ahead is         *)
(* base + k * d before constraints and rounding.  PUE 1.20, 1.18, 1.16     *)
(* gives 1.14 for the next year; CFE 0.91, 0.97 gives the candidate 1.03,  *)
(* clamped to 1.00.                                                        *)
(***************************************************************************)
EqualSteps(r) ==
  /\ Len(r) >= 2
  /\ \A i \in 1..(Len(r) - 1) : r[i + 1] - r[i] = r[2] - r[1]

C17_LinearTrend ==
  TrendCall /\ EqualSteps(Retained) /\ Len(Retained) >= config.min_data_points =>
    LET d == Retained[2] - Retained[1]
        base == Retained[Len(Retained)]
    IN  /\ ~call.out.nan
        /\ call.out.n = d * call.out.d
        /\ \A k \in 1..MaxNumYears :
             LET forecast == Extrapolate(base, call.out, k)
             IN  forecast.n = (base + k * d) * forecast.d
        /\ config = DefaultConfig
             /\ Retained = <<Hundredths(120), Hundredths(118), Hundredths(116)>>
             => EstimatedValue(config, "power-usage-effectiveness", base,
                               call.out, 1, 2) = Float(Hundredths(114))
        /\ config = DefaultConfig /\ Retained = <<Hundredths(91), Hundredths(97)>>
             => /\ Extrapolate(base, call.out, 1).n
                     = Hundredths(103) * Extrapolate(base, call.out, 1).d
                /\ EstimatedValue(config, "provider-cfe-annual", base,
                                  call.out, 1, 2) = Float(Hundredths(100))

\* the trend of PUE 1.20, 1.18, 1.16 under the default configuration
C17_Witness ==
  /\ TrendCall
  /\ config = DefaultConfig
  /\ call.cells = <<Float(Hundredths(120)), Float(Hundredths(118)),
                    Float(Hundredths(116))>>
  /\ call.out.n = Hundredths(-2) * call.out.d

\* the trend of CFE 0.91, 0.97, with a year without a value between them
C17_WitnessCfe ==
  /\ TrendCall
  /\ config = DefaultConfig
  /\ call.cells = <<Float(Hundredths(91)), NaN, Float(Hundredths(97))>>
  /\ call.out.n = Hundredths(6) * call.out.d

(***************************************************************************)
(* C18: _apply_constraints classifies a column by its exact name and       *)
(* returns max(min_carbon_intensity, v) for the six carbon-intensity       *)
(* columns, v clamped into [min_cfe, max_cfe] for the two CFE columns,     *)
(* max(min_pue, v) for power-usage-effectiveness, max(0, v) for            *)
(* water-usage-effectiveness, and v unchanged for every other name; NaN is *)
(* returned unchanged for every column.                                    *)
(***************************************************************************)
AtLeast(v, lo) == IF v.n < lo * v.d THEN Rat(lo, 1) ELSE v
AtMost(v, hi) == IF v.n > hi * v.d THEN Rat(hi, 1) ELSE v

Constrained(column, v) ==
  IF column \in {"provider-carbon-intensity-market-annual",
                 "provider-carbon-intensity-average-consumption-hourly",
                 "grid-carbon-intensity-average-consumption-annual",
                 "grid-carbon-intensity-marginal-consumption-annual",
                 "grid-carbon-intensity-average-production-annual",
                 "grid-carbon-intensity"}
    THEN AtLeast(v, config.min_carbon_intensity)
  ELSE IF column \in {"provider-cfe-hourly", "provider-cfe-annual"}
    THEN AtMost(AtLeast(v, config.min_cfe), config.max_cfe)
  ELSE IF column = "power-usage-effectiveness"
    THEN AtLeast(v, config.min_pue)
  ELSE IF column = "water-usage-effectiveness"
    THEN AtLeast(v, 0)
  ELSE v

C18_Classification ==
  ConstraintCall =>
    IF call.value.nan THEN call.out = call.value
    ELSE /\ ~call.out.nan
         /\ call.out.d > 0
         /\ call.out.n * Constrained(call.column, call.value).d
              = Constrained(call.column, call.value).n * call.out.d
         /\ Constrained(call.column, call.value) = call.value
              => call.out = call.value

\* a CFE above the configured maximum, clamped to it
C18_Witness ==
  /\ ConstraintCall
  /\ config = PickyConfig
  /\ call.column = "provider-cfe-annual"
  /\ call.value = Rat(Hundredths(120), 1)
  /\ call.out.n = Hundredths(90) * call.out.d

\* a name that differs from a constrained one in case only, left alone
C18_WitnessCase ==
  /\ ConstraintCall
  /\ call.column = "Power-Usage-Effectiveness"
  /\ call.value = Rat(Hundredths(50), 1)
  /\ call.out = call.value

\* NaN for a constrained column
C18_WitnessNaN ==
  /\ ConstraintCall
  /\ call.column = "grid-carbon-intensity"
  /\ call.value.nan
  /\ call.out.nan

(***************************************************************************)
(* C19: _detect_outliers flags no point of a series of fewer than 3        *)
(* values, and otherwise flags exactly the points whose absolute z-score,  *)
(* computed with the population mean and the population standard           *)
(* deviation of the series, exceeds outlier_threshold.  With n values of   *)
(* sum S and D[j] = n * series[j] - S, the population z-score of point i   *)
(* exceeds tn / td iff D[i]^2 * n * td^2 > tn^2 * Sum D[j]^2.              *)
(***************************************************************************)
PopulationFlagged(series, i, threshold) ==
  LET n == Len(series)
      D == [j \in DOMAIN series |-> n * series[j] - SumSeq(series)]
      SS == SumSeq([j \in DOMAIN series |-> D[j] * D[j]])
  IN  D[i] * D[i] * n * threshold.d * threshold.d
        > threshold.n * threshold.n * SS

C19_PopulationZScore ==
  OutlierCall =>
    /\ DOMAIN call.out = DOMAIN call.series
    /\ Len(call.series) < 3 => \A i \in DOMAIN call.series : ~call.out[i]
    /\ Len(call.series) >= 3 =>
         \A i \in DOMAIN call.series :
           call.out[i] <=> PopulationFlagged(call.series, i, config.outlier_threshold)

(***************************************************************************)
(* C20: _calculate_weighted_trend returns exactly 0 whenever fewer than    *)
(* min_data_points observations remain for the entity, after the missing   *)
(* values are dropped and again after the flagged points are dropped, and  *)
(* whenever no consecutive difference remains.                             *)
(***************************************************************************)
TooFew ==
  \/ Len(call.cells) < config.min_data_points
  \/ Len(PresentValues(call.cells)) < config.min_data_points
  \/ Len(Retained) < config.min_data_points
  \/ Len(Retained) < 2

C20_ZeroTrend ==
  TrendCall /\ TooFew => call.out = Rat(0, 1)

\* three observations where three are required, one of them flagged
C20_Witness ==
  /\ TrendCall
  /\ config = PickyConfig
  /\ call.cells = <<Float(Hundredths(97)), Float(Hundredths(116)),
                    Float(Hundredths(150))>>
  /\ Len(Retained) = 2
  /\ call.out = Rat(0, 1)

\* two observations and a missing value where two are required
C20_WitnessMissing ==
  /\ TrendCall
  /\ config = DefaultConfig
  /\ call.cells = <<Float(Hundredths(116)), NaN, NaN>>
  /\ call.out = Rat(0, 1)

\* one observation where one is required: no difference remains
C20_WitnessNoDifference ==
  /\ TrendCall
  /\ config.min_data_points = 1
  /\ call.cells = <<Float(Hundredths(116))>>
  /\ call.out = Rat(0, 1)

(***************************************************************************)
(* C21: the trend is a rate of change per year.  For an entity with        *)
(* exactly two retained observations (y1, v1) and (y2, v2), y1 < y2, the   *)
(* trend equals (v2 - v1) / (y2 - y1), also when the two years are not     *)
(* contiguous.                                                             *)
(***************************************************************************)
\* the positions of the cells that hold a value: the rows of UnitGroup are
\* one year apart, so their distance is the distance of the years
PresentAt(cells) == {i \in DOMAIN cells : notna(cells[i])}

C21_PerYearRate ==
  TrendCall /\ Cardinality(PresentAt(call.cells)) = 2
            /\ config.min_data_points <= 2 =>
    \A i, j \in PresentAt(call.cells) :
      i < j =>
        /\ ~call.out.nan
        /\ call.out.n * (UnitGroup(call.cells)[j].year - UnitGroup(call.cells)[i].year)
             = (call.cells[j].v - call.cells[i].v) * call.out.d

(***************************************************************************)
(* C22: _preserve_precision returns, for a numeric metric column, the      *)
(* greatest number of decimal digits of a non-missing value of the column  *)
(* (a whole number counting as 0), capped at 6, and 3 for a column without *)
(* a non-missing value; a column whose precision is 0 has every forecast   *)
(* value emitted as an integer.                                            *)
(***************************************************************************)
\* the decimal digits a value of the file is written with
Digits(cell) ==
  IF cell.kind = "int" THEN 0
  ELSE CHOOSE k \in 0..ScaleDigits :
         /\ cell.v % Pow10(ScaleDigits - k) = 0
         /\ \A j \in 0..(k - 1) : cell.v % Pow10(ScaleDigits - j) # 0

Capped(digits) == IF digits > 6 THEN 6 ELSE digits

C22_Cap ==
  call.fn = "_preserve_precision" =>
    /\ \A d \in call.decimal_places : call.out >= Capped(d)
    /\ \E d \in call.decimal_places : call.out = Capped(d)
    /\ call.out <= 6

C22_CapWitness ==
  /\ call.fn = "_preserve_precision"
  /\ call.decimal_places = {2, 9}
  /\ call.out = 6

(***************************************************************************)
(* C28: with the default outlier_threshold of 3.0, _detect_outliers flags  *)
(* no point of a series of 10 or fewer values, so that the outlier filter  *)
(* removes nothing and the trend is computed from all the non-missing      *)
(* observations.                                                           *)
(***************************************************************************)
DefaultThreshold == config.outlier_threshold = [n |-> 3, d |-> 1]

C28_NoOutlierUpToTen ==
  /\ OutlierCall /\ DefaultThreshold /\ Len(call.series) <= 10 =>
       \A i \in DOMAIN call.series : ~call.out[i]
  /\ TrendCall /\ DefaultThreshold /\ Len(call.cells) <= 10 =>
       /\ Retained = PresentValues(call.cells)
       /\ Len(Retained) >= 2 /\ Len(Retained) >= config.min_data_points =>
            LET diffs == [i \in 1..(Len(Retained) - 1) |->
                            Retained[i + 1] - Retained[i]]
                weights == ExpWeights(Len(diffs))
            IN  call.out.n * SumSeq(weights)
                  = SumSeq([i \in DOMAIN diffs |-> diffs[i] * weights[i]])
                      * call.out.d

\* ten values, one of them apart from the nine others: its z-score,
\* 9 / sqrt(10) = 2.85, is the greatest a point of ten values can have
C28_Witness ==
  /\ OutlierCall
  /\ DefaultThreshold
  /\ Len(call.series) = 10
  /\ call.series[10] = Hundredths(118)
  /\ \A i \in 1..9 : call.series[i] = Hundredths(116)
  /\ \A i \in DOMAIN call.series : ~call.out[i]

\* eleven values, one of them apart from the ten others, flagged
C28_WitnessEleven ==
  /\ OutlierCall
  /\ DefaultThreshold
  /\ Len(call.series) = 11
  /\ call.out[11]

(***************************************************************************)
(* C29: a failing call of estimate_future_years (no data loaded, num_years *)
(* out of range, no rows at the base year) leaves the estimator as it was: *)
(* the loaded table, numeric_columns and estimation_metadata are           *)
(* unchanged, and no table is returned.  After any sequence of calls       *)
(* estimation_metadata describes the most recent successful call, or is    *)
(* empty: it is empty before the first call, a call that returns records   *)
(* its own base year, years and number of regions, and a failing call      *)
(* keeps what was there.                                                   *)
(***************************************************************************)
CallFailed ==
  /\ ret.raised = ""
  /\ ret'.called
  /\ ret'.raised \in {"No data loaded", "num_years must be between",
                      "No data found for most recent year"}

CallReturned ==
  /\ ret'.called
  /\ ret'.raised = ""
  /\ estimation_metadata' # estimation_metadata

Describes(metadata, rows, num_years) ==
  LET base == CHOOSE y \in {rows[i].year : i \in DOMAIN rows} :
                \A i \in DOMAIN rows : rows[i].year <= y
  IN  SansDate(metadata) =
        [base_year |-> base,
         estimated_years |-> [i \in 1..num_years |-> base + i],
         num_regions |-> Cardinality({i \in DOMAIN rows : rows[i].year = base}),
         methodology |-> "weighted_trend_extrapolation",
         outlier_threshold |-> config.outlier_threshold,
         min_data_points |-> config.min_data_points]

C29_FailedCallChangesNothing ==
  [][/\ ~ret.called => estimation_metadata = None
     /\ CallFailed =>
          /\ df' = df
          /\ numeric_columns' = numeric_columns
          /\ estimation_metadata' = estimation_metadata
          /\ ret'.rows = <<>>
     /\ CallReturned =>
          /\ df' = df
          /\ numeric_columns' = numeric_columns
          /\ Describes(Get(estimation_metadata'), Get(df'), ret'.num_years)]_vars

\* a call for no year at all that failed after a call that returned, the
\* metadata of that call still there
C29_Witness ==
  /\ ret.called
  /\ ret.raised = "num_years must be between"
  /\ ret.num_years = 0
  /\ estimation_metadata # None
  /\ Len(Get(estimation_metadata).estimated_years) = 2
  /\ Len(Get(df)) >= 2

\* a call on a table whose rows were all dropped: no row at the base year
C29_WitnessNoData ==
  /\ ret.called
  /\ ret.raised = "No data found for most recent year"
  /\ load_ret.raised = ""
  /\ csv # <<>>
  /\ estimation_metadata = None

(***************************************************************************)
(* C30: estimate_future_years never modifies the loaded table, and every   *)
(* row it returns equals a base-year row of that table in every column     *)
(* other than year and the numeric metric columns: cloud-provider,         *)
(* cloud-region and the non-numeric columns are carried over verbatim, the *)
(* row has the columns of the input, and its year is a forecast year.      *)
(***************************************************************************)
CopiedFrom(out, base) ==
  /\ out.provider = base.provider
  /\ out.region = base.region
  /\ DOMAIN out = DOMAIN base
  /\ DOMAIN out.vals = DOMAIN base.vals
  /\ \A c \in DOMAIN base.vals \ numeric_columns : out.vals[c] = base.vals[c]

C30_InputUntouched ==
  [][~ret.called /\ ret'.called /\ ret'.raised = "" =>
       /\ df' = df
       /\ \A j \in DOMAIN ret'.rows :
            /\ ret'.rows[j].year \in
                 (BaseYear + 1)..(BaseYear + ret'.num_years)
            /\ \E b \in BaseIdx : CopiedFrom(ret'.rows[j], Table[b])]_vars

\* two years estimated for a table with rows before its base year, a row
\* without provider and a text column
C30_Witness ==
  /\ Succeeded
  /\ ret.num_years = 2
  /\ \E i \in DOMAIN Table : Table[i].year < BaseYear
  /\ \E j \in DOMAIN ret.rows :
       /\ ret.rows[j].provider = NaNStr
       /\ ret.rows[j].vals["location"] = Str("Dublin")
       /\ ret.rows[j].year = BaseYear + 2
  /\ "location" \notin numeric_columns

(***************************************************************************)
(* geocode_location of the data-update scripts: the loop                   *)
(*   for attempt in range(max_retries): try: geolocator.geocode(...)       *)
(* step by step.  geo is the call: its place (pc), the loop variable, the  *)
(* answers of the geocoder so far, the pauses taken and, once it has       *)
(* returned, the result (None, or the text 'lat,lon' as the pair of        *)
(* numbers it prints, in ten-thousandths of a degree).                     *)
(***************************************************************************)
MaxRetries == 4

\* location names, each with what re.search(r'\(([^)]+)\)', name) captures
LocationNames ==
  {[name |-> "US East (Ohio)", group |-> <<"Ohio">>],
   [name |-> "Dublin", group |-> <<>>],
   [name |-> "Atlantis", group |-> <<>>]}

\* the text looked up: the AWS script takes the city between parentheses
\* when there is one, the GCP script the whole name
Query(script, location_name) ==
  IF script = "Amazon Web Services" /\ location_name.group # <<>>
  THEN location_name.group[1]
  ELSE location_name.name

\* what the geocoder knows, in hundred-thousandths of a degree; a place it
\* does not know is answered with None
Gazetteer ==
  [q \in {"Ohio", "Dublin", "US East (Ohio)"} |->
     CASE q = "Ohio" -> [latitude |-> 4019035, longitude |-> -8266945]
       [] q = "Dublin" -> [latitude |-> 5334981, longitude |-> -626031]
       [] OTHER -> [latitude |-> 3996118, longitude |-> -8299879]]

\* except (GeocoderTimedOut, GeocoderServiceError)
RetryableOrNotFound(outcome) ==
  outcome \in {"GeocoderTimedOut", "GeocoderServiceError", "None"}
Retryable(outcome) ==
  outcome \in {"GeocoderTimedOut", "GeocoderServiceError"}

\* f"{round(location.latitude, 4)},{round(location.longitude, 4)}"
LatLon(location) ==
  [lat |-> RoundHalfEven(location.latitude, 10),
   lon |-> RoundHalfEven(location.longitude, 10)]

\* the data-update scripts do not touch the estimator
EstimatorFrame ==
  UNCHANGED <<csv, config, df, numeric_columns, estimation_metadata, ret,
              load_ret, log, saved, exit_status, call>>

geocode_location(script, location_name, max_retries) ==
  /\ geo.pc = "idle"
  /\ geo' = [pc |-> "for", script |-> script, location_name |-> location_name,
             max_retries |-> max_retries, attempt |-> 0, outcomes |-> <<>>,
             sleeps |-> 0, result |-> None]
  /\ EstimatorFrame /\ UNCHANGED <<metadata_file, update>>

\* for attempt in range(max_retries); return None after the loop
ForAttempt ==
  /\ geo.pc = "for"
  /\ geo' = IF geo.attempt < geo.max_retries
            THEN [geo EXCEPT !.pc = "try"]
            ELSE [geo EXCEPT !.pc = "return", !.result = None]
  /\ EstimatorFrame /\ UNCHANGED <<metadata_file, update>>

\* location = geolocator.geocode(city, timeout=10) and what follows it: an
\* answer, None, or one of the exceptions
TryGeocode(outcome) ==
  /\ geo.pc = "try"
  /\ outcome = "location" => Query(geo.script, geo.location_name) \in DOMAIN Gazetteer
  /\ outcome = "None" => Query(geo.script, geo.location_name) \notin DOMAIN Gazetteer
  /\ LET called == [geo EXCEPT !.outcomes = Append(@, outcome)]
     IN  geo' =
           IF outcome = "location"
           THEN [called EXCEPT
                   !.pc = "return",
                   !.result = Some(LatLon(Gazetteer[Query(geo.script,
                                                          geo.location_name)]))]
           ELSE IF Retryable(outcome) /\ geo.attempt < geo.max_retries - 1
           THEN [called EXCEPT !.pc = "sleep"]
           ELSE [called EXCEPT !.pc = "return", !.result = None]
  /\ EstimatorFrame /\ UNCHANGED <<metadata_file, update>>

\* time.sleep(1), and the next turn of the loop
Sleep ==
  /\ geo.pc = "sleep"
  /\ geo' = [geo EXCEPT !.pc = "for", !.attempt = @ + 1, !.sleeps = @ + 1]
  /\ EstimatorFrame /\ UNCHANGED <<metadata_file, update>>

GeoNext ==
  \/ \E script \in {"Amazon Web Services", "Google Cloud"} :
       \E location_name \in LocationNames : \E max_retries \in 0..MaxRetries :
         geocode_location(script, location_name, max_retries)
  \/ ForAttempt
  \/ \E outcome \in {"location", "None", "GeocoderTimedOut",
                      "GeocoderServiceError", "Exception"} : TryGeocode(outcome)
  \/ Sleep

\* the statements of the function run one after another: a call of the
\* geocoder ends (it has a timeout of 10 seconds) and so does a pause
GeoFairSpec == Init /\ [][GeoNext]_vars /\ WF_vars(GeoNext)

\* ---- C27 ----
GeoStarted == geo.pc # "idle"
GeoReturned == geo.pc = "return"
GeoCalls == Len(geo.outcomes)
GeoLast == geo.outcomes[GeoCalls]

C27_Bounded ==
  GeoStarted =>
    /\ GeoCalls <= geo.max_retries
    /\ \A i \in 1..(GeoCalls - 1) :
         geo.outcomes[i] \in {"GeocoderTimedOut", "GeocoderServiceError"}
    /\ geo.sleeps <= GeoCalls
    /\ geo.sleeps >= GeoCalls - 1
    /\ geo.pc = "sleep" =>
         GeoLast \in {"GeocoderTimedOut", "GeocoderServiceError"}

C27_Results ==
  (GeoStarted /\ GeoCalls > 0) =>
    /\ GeoLast = "location" =>
         /\ GeoReturned
         /\ geo.result =
              Some(LatLon(Gazetteer[Query(geo.script, geo.location_name)]))
    /\ GeoLast \in {"None", "Exception"} =>
         GeoReturned /\ geo.result = None /\ geo.sleeps = GeoCalls - 1
    /\ (GeoCalls = geo.max_retries
        /\ GeoLast \in {"GeocoderTimedOut", "GeocoderServiceError"}) =>
         GeoReturned /\ geo.result = None

\* C27: a call of geocode_location always returns, after at most max_retries
\* calls of the geocoder; it pauses and tries again only after a timeout or a
\* service error; the first answer is returned as the 'lat,lon' text; a place
\* that is not found or an unexpected exception returns None at once; and
\* max_retries timeouts in a row return None.
C27_Geocode ==
  /\ [](C27_Bounded /\ C27_Results)
  /\ (GeoStarted ~> GeoReturned)

\* three timeouts in a row with max_retries = 3: None after three calls
C27_Witness ==
  /\ GeoReturned
  /\ geo.max_retries = 3
  /\ geo.outcomes = <<"GeocoderTimedOut", "GeocoderTimedOut", "GeocoderTimedOut">>
  /\ geo.sleeps = 2
  /\ geo.result = None

\* an answer on the second call, for the city between the parentheses
C27_WitnessRetried ==
  /\ GeoReturned
  /\ geo.script = "Amazon Web Services"
  /\ geo.location_name.name = "US East (Ohio)"
  /\ geo.outcomes = <<"GeocoderServiceError", "location">>
  /\ geo.result = Some([lat |-> 401904, lon |-> -826694])

\* the place is not found on the first call
C27_WitnessNotFound ==
  /\ GeoReturned
  /\ geo.max_retries = 3
  /\ geo.outcomes = <<"None">>
  /\ geo.sleeps = 0
  /\ geo.result = None

(***************************************************************************)
(* update_metadata_csv of the data-update scripts.  A row of the master    *)
(* table (Cloud_Region_Metadata.csv) is a function from its columns to     *)
(* cells; metric values are in ten-thousandths, so that a tolerance of     *)
(* 0.001 is 10 units and one of 0.01 is 100 units.  "cfe-region" stands    *)
(* for the columns neither script writes.                                  *)
(***************************************************************************)
MaxMaster == 3
MaxBatch == 2

MetaColumns ==
  {"cloud-provider", "cloud-region", "year", "power-usage-effectiveness",
   "water-usage-effectiveness", "provider-cfe-annual",
   "grid-carbon-intensity-average-consumption-annual", "location",
   "geolocation", "cfe-region"}

\* what each script matches, compares and counts
ScriptConfig(script) ==
  IF script = "Amazon Web Services"
  THEN [provider |-> "Amazon Web Services",
        metrics |-> <<"power-usage-effectiveness", "water-usage-effectiveness">>,
        tolerance |-> <<10, 10>>,
        counters |-> <<"pue_changes", "wue_changes">>,
        location |-> FALSE]
  ELSE [provider |-> "Google Cloud",
        metrics |-> <<"provider-cfe-annual",
                      "grid-carbon-intensity-average-consumption-annual">>,
        tolerance |-> <<10, 100>>,
        counters |-> <<"cfe_changes", "carbon_changes">>,
        location |-> TRUE]

MetaRow(provider, region, year, pue, wue, cfe, carbon, location, geo_, other) ==
  [c \in MetaColumns |->
     CASE c = "cloud-provider" -> Str(provider)
       [] c = "cloud-region" -> Str(region)
       [] c = "year" -> PyInt(year)
       [] c = "power-usage-effectiveness" -> pue
       [] c = "water-usage-effectiveness" -> wue
       [] c = "provider-cfe-annual" -> cfe
       [] c = "grid-carbon-intensity-average-consumption-annual" -> carbon
       [] c = "location" -> location
       [] c = "geolocation" -> geo_
       [] OTHER -> other]

\* the master tables: up to MaxMaster of these rows, in the order the scripts
\* leave them in (year descending, then provider, then region); the second
\* row repeats the key of the first
Masters ==
  LET rows ==
      <<MetaRow("Amazon Web Services", "us-east-1", 2024, Float(11500), Float(1800),
                NaN, NaN, Str("US East (N. Virginia)"), Str("38.9,-77.4"), Str("a24")),
        MetaRow("Amazon Web Services", "us-east-1", 2024, Float(11400), NaN,
                NaN, NaN, NaN, NaN, Str("a24bis")),
        MetaRow("Google Cloud", "us-central1", 2024, NaN, NaN,
                Float(9500), Float(4300000), Str("Iowa"), Str("41.2,-95.8"), Str("g24")),
        MetaRow("Microsoft Azure", "eastus", 2023, Float(11700), Float(4900),
                NaN, NaN, Str("Virginia"), Str("37.4,-79.8"), Str("z23")),
        MetaRow("Amazon Web Services", "us-east-1", 2022, Float(12000), NaN,
                NaN, NaN, Str("US East (N. Virginia)"), Str("38.9,-77.4"), Str("a22")),
        MetaRow("Google Cloud", "us-central1", 2022, NaN, NaN,
                Float(9300), NaN, NaN, Str("41.2,-95.8"), Str("g22"))>>
  IN  {[n \in 1..Cardinality(keep) |->
          rows[CHOOSE i \in keep : Cardinality({j \in keep : j < i}) = n - 1]] :
         keep \in {k \in SUBSET DOMAIN rows : Cardinality(k) <= MaxMaster}}

\* a row of the normalized data: normalize_aws_data gives region, PUE, WUE
\* and year; normalize_gcp_data gives region, location, CFE, carbon and year
Normalized(script, region, year, first, second, location) ==
  LET cfg == ScriptConfig(script)
  IN  [c \in {"cloud-region", "year", cfg.metrics[1], cfg.metrics[2]}
              \cup (IF cfg.location THEN {"location"} ELSE {}) |->
         CASE c = "cloud-region" -> Str(region)
           [] c = "year" -> PyInt(year)
           [] c = cfg.metrics[1] -> first
           [] c = cfg.metrics[2] -> second
           [] OTHER -> location]

\* normalized rows: a row of a region and year of the master table with one
\* value beyond the tolerance and one within it, one with the stored value
\* and a missing one, one for a year between the stored ones, and rows of
\* regions the master table does not have
NormalizedRows(script) ==
  IF script = "Amazon Web Services"
  THEN {Normalized(script, "us-east-1", 2024, Float(12000), Float(1805), NaN),
        Normalized(script, "us-east-1", 2024, Float(11500), NaN, NaN),
        Normalized(script, "us-east-1", 2023, NaN, Float(2000), NaN),
        Normalized(script, "us-east-2", 2024, Float(11000), Float(1000), NaN),
        Normalized(script, "ap-south-2", 2024, Float(13000), NaN, NaN)}
  ELSE {Normalized(script, "us-central1", 2024, Float(9500), Float(4300050),
                   Str("Council Bluffs")),
        Normalized(script, "us-central1", 2024, Float(9700), NaN, NaN),
        Normalized(script, "us-central1", 2023, NaN, Float(4000000), Str("Iowa")),
        Normalized(script, "europe-west1", 2024, Float(8000), Float(1000000),
                   Str("Dublin")),
        Normalized(script, "ap-south-2", 2024, Float(1000), NaN, NaN)}

\* fetch_aws_region_info: region ids with their location names
aws_region_info == [r \in {"us-east-2"} |-> "US East (Ohio)"]

\* by=['year', 'cloud-provider', 'cloud-region'], ascending=[False, True, True];
\* texts in the order in which Python compares strings
SortsBefore(r1, r2) ==
  LET alphabetical ==
        <<"Amazon Web Services", "Google Cloud", "Microsoft Azure", "ap-south-2",
          "eastus", "europe-west1", "us-central1", "us-east-1", "us-east-2">>
      rank(c) == CHOOSE i \in DOMAIN alphabetical : alphabetical[i] = c.s
  IN  \/ r1["year"].v > r2["year"].v
      \/ /\ r1["year"].v = r2["year"].v
         /\ \/ rank(r1["cloud-provider"]) < rank(r2["cloud-provider"])
            \/ /\ r1["cloud-provider"] = r2["cloud-provider"]
               /\ rank(r1["cloud-region"]) < rank(r2["cloud-region"])

\* result_df.sort_values on several keys: rows with equal keys keep their order
RECURSIVE InsertRow(_, _)
InsertRow(sorted, r) ==
  IF sorted = <<>> THEN <<r>>
  ELSE IF SortsBefore(r, Head(sorted)) THEN <<r>> \o sorted
  ELSE <<Head(sorted)>> \o InsertRow(Tail(sorted), r)
RECURSIVE SortRows(_)
SortRows(rows) ==
  IF rows = <<>> THEN <<>>
  ELSE InsertRow(SortRows(SubSeq(rows, 1, Len(rows) - 1)), rows[Len(rows)])

\* matches: the rows of the provider, region and year
Matches(metadata_df, provider, region, year) ==
  {i \in DOMAIN metadata_df :
     /\ metadata_df[i]["cloud-provider"] = Str(provider)
     /\ metadata_df[i]["cloud-region"] = region
     /\ metadata_df[i]["year"].v = year.v}

\* prev_year_match: the rows of the provider and region, of any year
PrevYearMatch(metadata_df, provider, region) ==
  {i \in DOMAIN metadata_df :
     /\ metadata_df[i]["cloud-provider"] = Str(provider)
     /\ metadata_df[i]["cloud-region"] = region}

\* pd.notna(new) and (pd.isna(existing) or abs(new - existing) > tolerance)
Changed(new, existing, tolerance) ==
  notna(new) /\ (~notna(existing) \/ Abs(new.v - existing.v) > tolerance)

\* pd.notna(new_location) and (pd.isna(existing) or existing != new_location)
LocationChanged(new_location, existing_location) ==
  notna(new_location)
    /\ (~notna(existing_location) \/ existing_location # new_location)

\* gcp_row['location']; the AWS data has no such column
NewLocation(cfg, row) == IF cfg.location THEN row["location"] ELSE NaN

\* "Only update values that have actual new data (not NaN)"
Overlay(cfg, existing_row, row) ==
  [c \in DOMAIN existing_row |->
     IF c \in Range(cfg.metrics) /\ notna(row[c]) THEN row[c]
     ELSE IF c = "location" /\ notna(NewLocation(cfg, row))
     THEN NewLocation(cfg, row)
     ELSE existing_row[c]]

\* geocode_location(location_name) with its default of three tries: the
\* text f"{lat},{lon}" of the place, or None when the geocoder did not
\* answer (geocoded is FALSE)
Geolocation(script, name, geocoded) ==
  LET location_name == CHOOSE l \in LocationNames : l.name = name
      q == Query(script, location_name)
      ll == LatLon(Gazetteer[q])
  IN  IF geocoded /\ q \in DOMAIN Gazetteer
      THEN Str(ToString(ll.lat) \o "e-4," \o ToString(ll.lon) \o "e-4")
      ELSE NaN

\* a completely new region: a row with provider, region and year, the values
\* present, the location (aws_region_info[region], or that of the GCP row)
\* and its geolocation when known, and '' in the columns not listed
NewRegionRow(script, cfg, row, geocoded) ==
  LET location ==
        IF cfg.location THEN row["location"]
        ELSE IF row["cloud-region"].s \in DOMAIN aws_region_info
        THEN Str(aws_region_info[row["cloud-region"].s])
        ELSE NaN
  IN  [c \in MetaColumns |->
         CASE c = "cloud-provider" -> Str(cfg.provider)
           [] c \in {"cloud-region", "year"} -> row[c]
           [] c \in Range(cfg.metrics) -> row[c]
           [] c = "location" -> location
           [] c = "geolocation" ->
                IF notna(location) THEN Geolocation(script, location.s, geocoded)
                ELSE NaN
           [] OTHER -> Str("")]

\* one turn of the loop over the normalized rows
ProcessRow(script, metadata_df, row, geocoded, tie) ==
  LET cfg == ScriptConfig(script)
      matches == Matches(metadata_df, cfg.provider, row["cloud-region"], row["year"])
      prev == PrevYearMatch(metadata_df, cfg.provider, row["cloud-region"])
      \* .sort_values('year', ascending=False).iloc[0]: a row of the greatest
      \* year; the sort on one key is not stable, so that with several rows
      \* of that year either end of them (tie) may come first
      top == {i \in prev :
                \A j \in prev : metadata_df[j]["year"].v <= metadata_df[i]["year"].v}
      template == metadata_df[IF tie = "first" THEN SetMin(top) ELSE SetMax(top)]
      none == [kind |-> "", row_idx |-> 0, row |-> row,
               changes |-> <<FALSE, FALSE>>, location |-> FALSE]
  IN  IF matches # {}
      THEN LET row_idx == SetMin(matches)
               existing_row == metadata_df[row_idx]
               changes == [k \in 1..2 |->
                             Changed(row[cfg.metrics[k]],
                                     existing_row[cfg.metrics[k]],
                                     cfg.tolerance[k])]
               location == LocationChanged(NewLocation(cfg, row),
                                           existing_row["location"])
           IN  IF changes[1] \/ changes[2] \/ location
               THEN [none EXCEPT !.kind = "updated", !.row_idx = row_idx,
                                 !.row = Overlay(cfg, existing_row, row),
                                 !.changes = changes, !.location = location]
               ELSE [none EXCEPT !.kind = "unchanged"]
      ELSE IF prev # {}
      THEN [none EXCEPT
              !.kind = "new",
              !.row = [Overlay(cfg, template, row) EXCEPT !["year"] = row["year"]]]
      ELSE IF \A i \in DOMAIN metadata_df :
                metadata_df[i]["cloud-provider"] # Str(cfg.provider)
      THEN [none EXCEPT !.kind = "IndexError"]
      ELSE [none EXCEPT !.kind = "new",
                        !.row = NewRegionRow(script, cfg, row, geocoded)]

\* for row_idx, updated_row in updated_rows: result_df.loc[row_idx] = updated_row
RECURSIVE ApplyUpdates(_, _)
ApplyUpdates(result_df, outcomes) ==
  IF outcomes = <<>> THEN result_df
  ELSE ApplyUpdates(
         IF Head(outcomes).kind = "updated"
         THEN [result_df EXCEPT ![Head(outcomes).row_idx] = Head(outcomes).row]
         ELSE result_df,
         Tail(outcomes))

\* new_regions.append(new_row), for each row that is inserted
NewRegionsLast(outcomes) ==
  LET new == {i \in DOMAIN outcomes : outcomes[i].kind = "new"}
  IN  IF new = {} THEN <<>> ELSE <<outcomes[SetMax(new)].row>>
RECURSIVE NewRegions(_)
NewRegions(outcomes) ==
  IF outcomes = <<>> THEN <<>>
  ELSE (IF Head(outcomes).kind = "new" THEN <<Head(outcomes).row>> ELSE <<>>)
         \o NewRegions(Tail(outcomes))

Stats(cfg, outcomes) ==
  LET updated == {i \in DOMAIN outcomes : outcomes[i].kind = "updated"}
  IN  [k \in {cfg.counters[1], cfg.counters[2], "new_rows", "unchanged"}
              \cup (IF cfg.location THEN {"location_updates"} ELSE {}) |->
         CASE k = cfg.counters[1] ->
                Cardinality({i \in updated : outcomes[i].changes[1]})
           [] k = cfg.counters[2] ->
                Cardinality({i \in updated : outcomes[i].changes[2]})
           [] k = "new_rows" ->
                Cardinality({i \in DOMAIN outcomes : outcomes[i].kind = "new"})
           [] k = "unchanged" ->
                Cardinality({i \in DOMAIN outcomes : outcomes[i].kind = "unchanged"})
           [] OTHER ->
                Cardinality({i \in updated : outcomes[i].location})]

\* what a call returns: (result, has_changes, stats), or the exception raised
\* at normalized['year'].iloc[0] of an empty table and at .iloc[0] of the
\* provider's rows when there are none
Updated(script, metadata_df, normalized, geocoded, tie, applications) ==
  LET cfg == ScriptConfig(script)
      outcomes == [i \in DOMAIN normalized |->
                     ProcessRow(script, metadata_df, normalized[i], geocoded[i], tie)]
      has_changes == \E i \in DOMAIN outcomes : outcomes[i].kind \in {"updated", "new"}
      raised == normalized = <<>>
                  \/ \E i \in DOMAIN outcomes : outcomes[i].kind = "IndexError"
  IN  [called |-> TRUE, script |-> script, normalized |-> normalized,
       metadata_df |-> metadata_df, applications |-> applications,
       raised |-> IF raised THEN "IndexError" ELSE "",
       has_changes |-> ~raised /\ has_changes,
       stats |-> IF raised THEN <<>> ELSE Stats(cfg, outcomes),
       updated_df |-> IF raised THEN <<>> ELSE ApplyUpdates(metadata_df, outcomes),
       result |->
         IF raised THEN <<>>
         ELSE IF ~has_changes THEN metadata_df
         ELSE SortRows(ApplyUpdates(metadata_df, outcomes) \o NewRegions(outcomes))]

UpdateInit ==
  /\ csv = <<>>
  /\ config = DefaultConfig
  /\ df = None
  /\ numeric_columns = {}
  /\ estimation_metadata = None
  /\ ret = NoCall
  /\ load_ret = NotLoaded
  /\ log = {}
  /\ saved = NotSaved
  /\ exit_status = None
  /\ call = NoUnitCall
  /\ metadata_file \in Masters
  /\ update = NoUpdate
  /\ geo = NoGeocode

update_metadata_csv(script, normalized, geocoded, tie) ==
  /\ ~update.called
  /\ update' = Updated(script, metadata_file, normalized, geocoded, tie, 1)
  /\ EstimatorFrame /\ UNCHANGED <<metadata_file, geo>>

\* the next run of main on the output of the first, with the same normalized
\* rows: updated_metadata.to_csv(output_path) wrote an empty text as an
\* empty field, which is read as a missing value
update_again ==
  /\ update.called /\ update.raised = "" /\ update.applications = 1
  /\ metadata_file' =
       [i \in DOMAIN update.result |->
          [c \in DOMAIN update.result[i] |->
             IF update.result[i][c] = Str("") THEN NaN ELSE update.result[i][c]]]
  /\ \E geocoded \in [DOMAIN update.normalized -> BOOLEAN] :
       \E tie \in {"first", "last"} :
         update' = Updated(update.script, metadata_file', update.normalized,
                           geocoded, tie, 2)
  /\ EstimatorFrame /\ UNCHANGED geo

UpdateNext ==
  \/ \E script \in {"Amazon Web Services", "Google Cloud"} :
       \E normalized \in SeqsUpTo(NormalizedRows(script), MaxBatch) :
         \E geocoded \in [DOMAIN normalized -> BOOLEAN] :
           \E tie \in {"first", "last"} :
             update_metadata_csv(script, normalized, geocoded, tie)
  \/ update_again

UpdateSpec == UpdateInit /\ [][UpdateNext]_vars

\* ---- C23 ----
\* a first call of update_metadata_csv that returned
Applied == update.called /\ update.raised = "" /\ update.applications = 1

\* the rows of the region of normalized row i in the table the call read,
\* those with that year and those of earlier years
RegionRows(i) ==
  PrevYearMatch(update.metadata_df, ScriptConfig(update.script).provider,
                update.normalized[i]["cloud-region"])
KeyRows(i) ==
  Matches(update.metadata_df, ScriptConfig(update.script).provider,
          update.normalized[i]["cloud-region"], update.normalized[i]["year"])
PriorRows(i) ==
  {j \in RegionRows(i) :
     update.metadata_df[j]["year"].v < update.normalized[i]["year"].v}
NearestPrior(i) ==
  {j \in PriorRows(i) :
     \A k \in PriorRows(i) :
       update.metadata_df[k]["year"].v <= update.metadata_df[j]["year"].v}

\* the template with the year and the present values of normalized row i
Inserted(template, i) ==
  [c \in DOMAIN template |->
     IF c = "year" THEN update.normalized[i]["year"]
     ELSE IF c \in DOMAIN update.normalized[i] /\ notna(update.normalized[i][c])
     THEN update.normalized[i][c]
     ELSE template[c]]

\* C23: a normalized row of a region that the master table has for other
\* years, but not for the row's year, is inserted as a copy of the region's
\* row of the nearest prior year (the greatest year below the row's) with
\* only the year and the present incoming values replaced.
C23_NearestPriorTemplate ==
  Applied =>
    \A i \in DOMAIN update.normalized :
      (KeyRows(i) = {} /\ PriorRows(i) # {}) =>
        \E j \in NearestPrior(i) :
          Inserted(update.metadata_df[j], i) \in Range(update.result)

\* what the code does: the template is a row of the region's greatest year,
\* earlier or later than the row's
C23_GreatestYearTemplate ==
  Applied =>
    \A i \in DOMAIN update.normalized :
      (KeyRows(i) = {} /\ RegionRows(i) # {}) =>
        \E j \in RegionRows(i) :
          /\ \A k \in RegionRows(i) :
               update.metadata_df[k]["year"].v <= update.metadata_df[j]["year"].v
          /\ Inserted(update.metadata_df[j], i) \in Range(update.result)

\* where the two differ: the region is stored for 2022 and 2024 and the row
\* is of 2023
C23_WitnessLaterYear ==
  /\ Applied
  /\ \E i \in DOMAIN update.normalized :
       /\ KeyRows(i) = {} /\ PriorRows(i) # {}
       /\ PriorRows(i) # RegionRows(i)

\* ---- C24 ----
\* normalized row i brings, for metric k of the script, a present value that
\* is beyond the tolerance of the value stored in row j, or one where none
\* is stored
BringsChange(i, j, k) ==
  LET cfg == ScriptConfig(update.script)
  IN  /\ j \in KeyRows(i)
      /\ Changed(update.normalized[i][cfg.metrics[k]],
                 update.metadata_df[j][cfg.metrics[k]], cfg.tolerance[k])

\* C24: a stored metric value of a matched row is overwritten only if an
\* incoming value for that metric is present and differs from it by more
\* than the tolerance, or none is stored; a missing incoming value
\* overwrites nothing and an unchanged value is left as it is.
C24_OverwriteOnlyChanged ==
  Applied =>
    \A j \in DOMAIN update.metadata_df : \A k \in 1..2 :
      LET c == ScriptConfig(update.script).metrics[k]
      IN  update.updated_df[j][c] # update.metadata_df[j][c] =>
            \E i \in DOMAIN update.normalized : BringsChange(i, j, k)

\* what the code does: a stored value is overwritten by a present incoming
\* value of a row that brings a change in some compared field
C24_OverwriteWhenRowChanged ==
  Applied =>
    \A j \in DOMAIN update.metadata_df : \A k \in 1..2 :
      LET cfg == ScriptConfig(update.script)
          c == cfg.metrics[k]
      IN  update.updated_df[j][c] # update.metadata_df[j][c] =>
            \E i \in DOMAIN update.normalized :
              /\ j \in KeyRows(i)
              /\ update.updated_df[j][c] = update.normalized[i][c]
              /\ notna(update.normalized[i][c])
              /\ \/ BringsChange(i, j, 1)
                 \/ BringsChange(i, j, 2)
                 \/ LocationChanged(NewLocation(cfg, update.normalized[i]),
                                    update.metadata_df[j]["location"])

\* a row of which one value changed and the other is within the tolerance
C24_WitnessWithin ==
  /\ Applied
  /\ \E i \in DOMAIN update.normalized : \E j \in KeyRows(i) :
       \E k \in 1..2 :
         LET c == ScriptConfig(update.script).metrics[k]
         IN  /\ BringsChange(i, j, 3 - k)
             /\ notna(update.normalized[i][c])
             /\ update.normalized[i][c] # update.metadata_df[j][c]
             /\ ~BringsChange(i, j, k)

\* ---- C25 ----
\* row j of the table the call read has the provider, region and year of
\* some normalized row
Keyed(j) == \E i \in DOMAIN update.normalized : j \in KeyRows(i)

\* how many rows of a table are equal to r
Copies(rows, r) == Cardinality({n \in DOMAIN rows : rows[n] = r})

\* C25: a call of update_metadata_csv that returns keeps every row of the
\* master table that no normalized row matches by provider, region and year,
\* with all its values; it removes no row; and its result has the original
\* number of rows plus stats['new_rows'].
C25_PreservesMetadata ==
  (update.called /\ update.raised = "") =>
    /\ Len(update.result) = Len(update.metadata_df) + update.stats["new_rows"]
    /\ Len(update.updated_df) = Len(update.metadata_df)
    /\ \A j \in DOMAIN update.metadata_df :
         ~Keyed(j) =>
           /\ update.updated_df[j] = update.metadata_df[j]
           /\ Copies(update.result, update.metadata_df[j])
                >= Copies(update.metadata_df, update.metadata_df[j])
    /\ \A r \in Range(update.updated_df) :
         Copies(update.result, r) >= Copies(update.updated_df, r)

\* a call that updates one row and adds another beside a row of another
\* provider, which is kept
C25_Witness ==
  /\ Applied
  /\ update.stats["new_rows"] = 1
  /\ \E j \in DOMAIN update.metadata_df :
       Keyed(j) /\ update.updated_df[j] # update.metadata_df[j]
  /\ \E j \in DOMAIN update.metadata_df :
       /\ update.metadata_df[j]["cloud-provider"] = Str("Microsoft Azure")
       /\ update.metadata_df[j] \in Range(update.result)
  /\ Len(update.result) = 3

\* ---- C26 ----
\* the second call: the same normalized rows applied to the result of the
\* first
Reapplied == update.called /\ update.raised = "" /\ update.applications = 2

\* no two normalized rows have the same region and year
DistinctKeys ==
  \A i, j \in DOMAIN update.normalized :
    (/\ update.normalized[i]["cloud-region"] = update.normalized[j]["cloud-region"]
     /\ update.normalized[i]["year"] = update.normalized[j]["year"]) => i = j

\* C26: applying the same normalized rows again to the result reports no
\* change, adds no row and changes no value.
C26_Idempotent ==
  Reapplied =>
    /\ ~update.has_changes
    /\ update.stats["new_rows"] = 0
    /\ update.result = update.metadata_df

\* what holds of the code: the second application changes nothing when no
\* two normalized rows have the same region and year
C26_IdempotentDistinctKeys == (Reapplied /\ DistinctKeys) => C26_Idempotent

\* a second application after a first one that changed and added rows
C26_WitnessDistinct ==
  /\ Reapplied /\ DistinctKeys
  /\ Len(update.normalized) = 2
  /\ Len(update.result) = Len(metadata_file)
  /\ Len(update.result) > MaxMaster
  /\ ~update.has_changes

====
